---- MODULE Spec2Model ----
(***************************************************************************)
(* Model of the Ruki conversion engine.                                    *)
(*                                                                         *)
(*   Spec      the IR Builder: class RobotPost of postprocessor/Ruki_E.py, *)
(*             driven by the host's callbacks in any order.                *)
(*   SpecConv  the emitters of assets/emitters/universal_robots.py and the *)
(*             conversion entry point executar_conversao of Ruki_C.py.     *)
(*                                                                         *)
(* Python values are modelled as follows.  A str is a sequence of one-     *)
(* character strings when the code inspects or builds it (names, ids, IO   *)
(* references) and a TLA+ string when it is only a tag.  None is the empty *)
(* sequence where the value is otherwise a list or a str, and reference 0  *)
(* where it is a reference to a state dict.  The dicts that hold the       *)
(* interpreter state are objects of a heap, so that copying one and        *)
(* sharing one are different things.                                       *)
(***************************************************************************)
EXTENDS Integers, Sequences, FiniteSets, TLC

VARIABLES
    \* ---- RobotPost (Ruki_E.py) ----
    frames,             \* self.frames: key -> frame record
    tools,              \* self.tools: key -> tool record
    targets,            \* self.targets
    target_counter,     \* self.target_counter
    io_map,             \* self.io_map: io_ref -> record
    steps,              \* self.steps (state_before/state_after are heap references)
    instruction_index,  \* self.instruction_index
    heap,               \* the state dicts; heap[CUR] is self.current_state
    initial_state,      \* self.initial_state: a heap reference, NoRef for None
    subprograms,        \* self.subprograms: name -> record
    current_subprogram, \* self.current_subprogram
    PROG_NAME,          \* self.PROG_NAME
    PROG_NAMES,         \* self.PROG_NAMES
    PROG_FILES,         \* self.PROG_FILES
    ruki_data,          \* the document written by the last ProgSave
    prog_history,       \* the host's ProgStart/ProgFinish calls, as it made them
    \* ---- emitters and entry point ----
    arquivo,            \* the input file: what reading it yields
    DADOS_ROBOS,        \* the loaded catalog: brand -> record
    call,               \* the entry point invoked and its arguments
    result,             \* what the call returned, or that it raised
    elems,              \* the children of the archive's MainProgram, in order
    linhas_out,         \* the instruction lines of the emitted script / program
    files,              \* output files that exist after the call
    dirs,               \* output directories that exist after the call
    earlier,            \* the conversion made before the last one, and its outcome
    \* ---- RobotPost (Universal_Robots_AJT2.py) ----
    PROG,               \* self.PROG: the lines of the program being written
    _last_joints_rad,   \* self._last_joints_rad
    post_calls          \* the host's calls of the script post processor, as it made them

builderVars == <<frames, tools, targets, target_counter, io_map, steps,
                 instruction_index, heap, initial_state, subprograms,
                 current_subprogram, PROG_NAME, PROG_NAMES, PROG_FILES, ruki_data,
                 prog_history>>
scriptPostVars == <<PROG, _last_joints_rad, post_calls>>
convVars == <<arquivo, DADOS_ROBOS, call, result, elems, linhas_out, files, dirs,
              earlier, scriptPostVars>>
vars == <<builderVars, convVars>>

(***************************************************************************)
(* Bounds of the model.                                                    *)
(***************************************************************************)
MaxCalls == 3       \* callbacks of a Builder run that add a step, a program or a file

None == <<>>
NoRef == 0
CUR == 1

(***************************************************************************)
(* Strings the code formats or filters, as character sequences.            *)
(***************************************************************************)
world == <<"w", "o", "r", "l", "d">>
tool0 == <<"t", "o", "o", "l", "0">>

DigitChar(d) ==
    CASE d = 0 -> "0" [] d = 1 -> "1" [] d = 2 -> "2" [] d = 3 -> "3"
      [] d = 4 -> "4" [] d = 5 -> "5" [] d = 6 -> "6" [] d = 7 -> "7"
      [] d = 8 -> "8" [] d = 9 -> "9"

RECURSIVE Digits(_)
\* str(n) for n >= 0
Digits(n) == IF n < 10 THEN <<DigitChar(n)>>
             ELSE Append(Digits(n \div 10), DigitChar(n % 10))

RECURSIVE ZeroPad(_, _)
ZeroPad(s, width) == IF Len(s) >= width THEN s ELSE ZeroPad(<<"0">> \o s, width)

\* f"{n:03d}"
Format03d(n) == ZeroPad(Digits(n), 3)

AlnumChars ==
    {"a", "b", "c", "d", "e", "f", "g", "h", "i", "j", "k", "l", "m", "n", "o",
     "p", "q", "r", "s", "t", "u", "v", "w", "x", "y", "z",
     "A", "B", "C", "D", "E", "F", "G", "H", "I", "J", "K", "L", "M", "N", "O",
     "P", "Q", "R", "S", "T", "U", "V", "W", "X", "Y", "Z",
     "0", "1", "2", "3", "4", "5", "6", "7", "8", "9"}

\* filter_name, the fallback used without robofileio
filter_name(name) ==
    [i \in 1..Len(name) |->
        IF name[i] \in AlnumChars \cup {"_", "-"} THEN name[i] ELSE "_"]

(***************************************************************************)
(* Helper functions of Ruki_E.py.                                          *)
(***************************************************************************)
IdentityPose == <<0, 0, 0, 0, 0, 0>>

\* a pose is handed over as [x, y, z, rx, ry, rz]
pose_to_xyzrpw_deg(pose) ==
    IF pose = None THEN None
    ELSE IF Len(pose) < 6 THEN None
    ELSE <<pose[1], pose[2], pose[3], pose[4], pose[5], pose[6]>>

\* cosine of a rotation by a degrees, for the half turns the poses here use
CosHalfTurn(a) == IF a % 360 = 0 THEN 1 ELSE -1

\* the 4x4 list of the pose: rotation Rz(rz) * Ry(ry) * Rx(rx), which is diagonal
\* when every angle is a multiple of 180 degrees, and the translation in mm
pose_to_matrix(pose) ==
    IF pose = None THEN None
    ELSE LET cx == CosHalfTurn(pose[4])
             cy == CosHalfTurn(pose[5])
             cz == CosHalfTurn(pose[6])
         IN << <<cy * cz, 0, 0, pose[1]>>,
               <<0, cx * cz, 0, pose[2]>>,
               <<0, 0, cx * cy, pose[3]>>,
               <<0, 0, 0, 1>> >>

joints_to_list(joints) ==
    IF joints = None THEN None ELSE [i \in 1..Len(joints) |-> joints[i]]

config_to_list(conf_RLF) ==
    IF conf_RLF = None THEN None ELSE [i \in 1..Len(conf_RLF) |-> conf_RLF[i]]

(***************************************************************************)
(* State management.                                                       *)
(***************************************************************************)
DefaultState ==
    [active_frame |-> world, active_frame_id |-> -1,
     active_tool |-> tool0, active_tool_id |-> -1,
     speed_linear |-> 500, speed_joints |-> 60,
     accel_linear |-> 2000, accel_joints |-> 180, rounding |-> 0]

\* a copy that shares the dict instead of copying it
_copy_state_alias(h) == [ref |-> CUR, heap |-> h]

\* dict(self.current_state): a new dict with the current values
_copy_state(h) == [ref |-> Len(h) + 1, heap |-> Append(h, h[CUR])]

Get(kwargs, key, default) ==
    IF key \in DOMAIN kwargs THEN kwargs[key] ELSE default

(***************************************************************************)
(* Target management.                                                      *)
(***************************************************************************)
\* the id formatted without the padding
TargetId_unpadded(counter) == <<"T">> \o Digits(counter)

\* f"T{self.target_counter:03d}"
TargetId(counter) == <<"T">> \o Format03d(counter)
\* the id handed to the step is the one of the counter before the increment
_add_target_stale_id(tg, cnt, pose, joints, conf_RLF) ==
    LET counter == cnt + 1
        target_id == TargetId(counter)
        base == [id |-> target_id,
                 is_joint_target |-> (pose = None),
                 joints |-> joints_to_list(joints),
                 pose |-> pose_to_xyzrpw_deg(pose),
                 config_RLF |-> config_to_list(conf_RLF),
                 context |-> [frame |-> heap[CUR].active_frame,
                              frame_id |-> heap[CUR].active_frame_id,
                              tool |-> heap[CUR].active_tool,
                              tool_id |-> heap[CUR].active_tool_id]]
        target == IF pose # None
                  THEN base @@ [pose_matrix |-> pose_to_matrix(pose)]
                  ELSE base
    IN [targets |-> Append(tg, target), target_counter |-> counter, id |-> TargetId(cnt)]

\* _add_target on the target list tg and counter cnt; MoveC calls it twice.
\* The target's name and the external-axes poses are set by the host and
\* do not take part in what is modelled.
_add_target(tg, cnt, pose, joints, conf_RLF) ==
    LET counter == cnt + 1
        target_id == TargetId(counter)
        base == [id |-> target_id,
                 is_joint_target |-> (pose = None),
                 joints |-> joints_to_list(joints),
                 pose |-> pose_to_xyzrpw_deg(pose),
                 config_RLF |-> config_to_list(conf_RLF),
                 context |-> [frame |-> heap[CUR].active_frame,
                              frame_id |-> heap[CUR].active_frame_id,
                              tool |-> heap[CUR].active_tool,
                              tool_id |-> heap[CUR].active_tool_id]]
        target == IF pose # None
                  THEN base @@ [pose_matrix |-> pose_to_matrix(pose)]
                  ELSE base
    IN [targets |-> Append(tg, target), target_counter |-> counter, id |-> target_id]

(***************************************************************************)
(* Step management.                                                        *)
(***************************************************************************)
\* the active frame and tool taken from the host's name instead of the key
UpdateState_original_name(cur, step_type, kwargs) ==
    CASE step_type = "SET_FRAME" ->
            [cur EXCEPT !.active_frame = Get(kwargs, "frame_name", cur.active_frame),
                        !.active_frame_id = Get(kwargs, "frame_id", -1)]
      [] step_type = "SET_TOOL" ->
            [cur EXCEPT !.active_tool = Get(kwargs, "tool_name", cur.active_tool),
                        !.active_tool_id = Get(kwargs, "tool_id", -1)]
      [] step_type = "SET_SPEED" ->
            [cur EXCEPT !.speed_linear = Get(kwargs, "speed_linear", cur.speed_linear),
                        !.speed_joints = Get(kwargs, "speed_joints", cur.speed_joints)]
      [] step_type = "SET_ACCEL" ->
            [cur EXCEPT !.accel_linear = Get(kwargs, "accel_linear", cur.accel_linear),
                        !.accel_joints = Get(kwargs, "accel_joints", cur.accel_joints)]
      [] step_type = "SET_ROUNDING" ->
            [cur EXCEPT !.rounding = Get(kwargs, "rounding", 0)]
      [] OTHER -> cur

\* a speed or acceleration absent from the call put back to its default
UpdateState_absent_reset(cur, step_type, kwargs) ==
    CASE step_type = "SET_FRAME" ->
            [cur EXCEPT !.active_frame = Get(kwargs, "frame", cur.active_frame),
                        !.active_frame_id = Get(kwargs, "frame_id", -1)]
      [] step_type = "SET_TOOL" ->
            [cur EXCEPT !.active_tool = Get(kwargs, "tool", cur.active_tool),
                        !.active_tool_id = Get(kwargs, "tool_id", -1)]
      [] step_type = "SET_SPEED" ->
            [cur EXCEPT !.speed_linear = Get(kwargs, "speed_linear", 500),
                        !.speed_joints = Get(kwargs, "speed_joints", 60)]
      [] step_type = "SET_ACCEL" ->
            [cur EXCEPT !.accel_linear = Get(kwargs, "accel_linear", 2000),
                        !.accel_joints = Get(kwargs, "accel_joints", 180)]
      [] step_type = "SET_ROUNDING" ->
            [cur EXCEPT !.rounding = Get(kwargs, "rounding", 0)]
      [] OTHER -> cur

\* the running state after a step of this type with these keyword arguments
UpdateState(cur, step_type, kwargs) ==
    CASE step_type = "SET_FRAME" ->
            [cur EXCEPT !.active_frame = Get(kwargs, "frame", cur.active_frame),
                        !.active_frame_id = Get(kwargs, "frame_id", -1)]
      [] step_type = "SET_TOOL" ->
            [cur EXCEPT !.active_tool = Get(kwargs, "tool", cur.active_tool),
                        !.active_tool_id = Get(kwargs, "tool_id", -1)]
      [] step_type = "SET_SPEED" ->
            [cur EXCEPT !.speed_linear = Get(kwargs, "speed_linear", cur.speed_linear),
                        !.speed_joints = Get(kwargs, "speed_joints", cur.speed_joints)]
      [] step_type = "SET_ACCEL" ->
            [cur EXCEPT !.accel_linear = Get(kwargs, "accel_linear", cur.accel_linear),
                        !.accel_joints = Get(kwargs, "accel_joints", cur.accel_joints)]
      [] step_type = "SET_ROUNDING" ->
            [cur EXCEPT !.rounding = Get(kwargs, "rounding", 0)]
      [] OTHER -> cur

\* the counter left where it is
NextIndex_not_advanced(idx) == idx

\* self.instruction_index += 1
NextIndex(idx) == idx + 1
\* state_after taken from the copy made before the update
_add_step_stale_after(step_type, kwargs) ==
    LET idx == NextIndex(instruction_index)
        before == _copy_state(heap)
        after == _copy_state(before.heap)
        h1 == [after.heap EXCEPT ![CUR] = UpdateState(after.heap[CUR], step_type, kwargs)]
        step == [index |-> idx, type |-> step_type,
                 state_before |-> before.ref, state_after |-> after.ref] @@ kwargs
    IN /\ instruction_index' = idx
       /\ heap' = h1
       /\ steps' = Append(steps, step)

_add_step(step_type, kwargs) ==
    LET idx == NextIndex(instruction_index)
        before == _copy_state(heap)
        h1 == [before.heap EXCEPT ![CUR] = UpdateState(before.heap[CUR], step_type, kwargs)]
        after == _copy_state(h1)
        step == [index |-> idx, type |-> step_type,
                 state_before |-> before.ref, state_after |-> after.ref] @@ kwargs
    IN /\ instruction_index' = idx
       /\ heap' = after.heap
       /\ steps' = Append(steps, step)

\* a step as a reader of self.steps sees it: the snapshots by value
StepValue(s, h) ==
    [s EXCEPT !.state_before = h[s.state_before], !.state_after = h[s.state_after]]

StepValues(ss, h) == [i \in 1..Len(ss) |-> StepValue(ss[i], h)]

(***************************************************************************)
(* IO management.                                                          *)
(***************************************************************************)
\* f"{io_type}_{io_var}"
\* an IO variable is an int or a str: [int |-> n] or [str |-> chars]
IntVar(n) == [int |-> n]
StrVar(chars) == [str |-> chars]

\* the text an f-string puts for the variable
Str(io_var) == IF "int" \in DOMAIN io_var THEN Digits(io_var.int) ELSE io_var.str

\* io_ref = f"{io_type}_{io_var}"
IoRef(io_var, io_type) == io_type \o <<"_">> \o Str(io_var)

\* the entry is written at every use
_get_io_ref_overwrite(io_var, io_type) ==
    (IoRef(io_var, io_type) :> [type |-> io_type, index |-> io_var]) @@ io_map

\* _get_io_ref: the io_map afterwards (the reference itself is IoRef)
_get_io_ref(io_var, io_type) ==
    IF IoRef(io_var, io_type) \in DOMAIN io_map THEN io_map
    ELSE (IoRef(io_var, io_type) :> [type |-> io_type, index |-> io_var]) @@ io_map

(***************************************************************************)
(* Inputs of the Builder's callbacks.                                      *)
(***************************************************************************)
P1 == <<600, 300, 400, 180, 0, 180>>
P2 == <<500, 200, 0, 0, 0, 0>>
J1 == <<0, -90, 0, -90, 0, 0>>
PoseArgs == {None, P1}
JointArgs == {None, J1}
FrameNames == {None, world, <<"W", " ", "F">>}
ToolNames == {None, tool0, <<"G", "r", "p">>}
FrameIds == {1}
ProgNames == {<<"M", "a", "i", "n">>, <<"S", "u", "b">>, <<>>}
MoveCArgs == {<<None, None>>, <<P1, J1>>}
IoIndices == {IntVar(1), StrVar(<<"1">>)}
DO == <<"D", "O">>
AO == <<"A", "O">>
DI == <<"D", "I">>

\* the callbacks made so far that left a step, a program name or a file
Calls == Len(steps) + Len(PROG_NAMES) + Len(PROG_FILES)
StepAllowed == Calls < MaxCalls

(***************************************************************************)
(* RoboDK post processor callbacks.                                        *)
(***************************************************************************)
\* the snapshot taken by every ProgStart
CaptureInitial_always(init) == TRUE

\* if self.initial_state is None
CaptureInitial(init) == init = NoRef

(***************************************************************************)
(* What the host did, kept beside the Builder's own bookkeeping: the       *)
(* subprogram it has open (the last ProgStart after the first, not yet     *)
(* followed by a ProgFinish) with the number of steps made before it, and  *)
(* for each subprogram it closed the positions of the steps made between   *)
(* its ProgStart and its ProgFinish.                                       *)
(***************************************************************************)
NoHistory == [open |-> <<>>, closed |-> <<>>]

Without(f, key) == [k \in DOMAIN f \ {key} |-> f[k]]

Started(h, progname, first) ==
    IF first THEN h
    ELSE [open |-> <<[name |-> filter_name(progname), from |-> Len(steps) + 1]>>,
          closed |-> Without(h.closed, filter_name(progname))]

Finished(h) ==
    IF h.open = <<>> THEN h
    ELSE [open |-> <<>>,
          closed |-> (h.open[1].name :> [from |-> h.open[1].from, to |-> Len(steps)])
                        @@ h.closed]

ProgStart ==
    /\ Calls < MaxCalls
    /\ \E progname \in ProgNames :
         LET name == filter_name(progname)
             names == Append(PROG_NAMES, name)
             snap == _copy_state(heap)
         IN /\ PROG_NAME' = name
            /\ PROG_NAMES' = names
            /\ IF CaptureInitial(initial_state)
               THEN initial_state' = snap.ref /\ heap' = snap.heap
               ELSE UNCHANGED <<initial_state, heap>>
            /\ IF Len(names) > 1
               THEN /\ current_subprogram' = name
                    /\ subprograms' =
                         (name :> [start_step |-> instruction_index + 1]) @@ subprograms
               ELSE UNCHANGED <<current_subprogram, subprograms>>
            /\ prog_history' = Started(prog_history, progname, PROG_NAMES = <<>>)
    /\ UNCHANGED <<frames, tools, targets, target_counter, io_map, steps,
                   instruction_index, PROG_FILES, ruki_data, convVars>>

\* "if self.current_subprogram" is false for None and for the empty name alike
ProgFinish ==
    /\ IF current_subprogram # None
       THEN /\ subprograms' =
                 [subprograms EXCEPT ![current_subprogram] =
                     [end_step |-> instruction_index] @@ @]
            /\ current_subprogram' = None
       ELSE UNCHANGED <<subprograms, current_subprogram>>
    /\ prog_history' = Finished(prog_history)
    /\ UNCHANGED <<frames, tools, targets, target_counter, io_map, steps,
                   instruction_index, heap, initial_state, PROG_NAME, PROG_NAMES,
                   PROG_FILES, ruki_data, convVars>>

CountType(ss, types) == Cardinality({i \in 1..Len(ss) : ss[i].type \in types})

\* ProgSave with ask_user = False; json.dump writes every dict by value
ProgSave ==
    /\ Calls < MaxCalls
    /\ ruki_data' =
         [frames |-> frames, tools |-> tools, targets |-> targets, io_map |-> io_map,
          program |->
            [main |-> IF PROG_NAMES # <<>> THEN PROG_NAMES[1] ELSE PROG_NAME,
             subprograms |-> DOMAIN subprograms,
             initial_state |-> IF initial_state # NoRef THEN heap[initial_state]
                               ELSE heap[CUR],
             steps |-> StepValues(steps, heap)],
          statistics |->
            [total_steps |-> Len(steps), total_targets |-> Len(targets),
             move_j_count |-> CountType(steps, {"MOVE_J"}),
             move_l_count |-> CountType(steps, {"MOVE_L"}),
             move_c_count |-> CountType(steps, {"MOVE_C"}),
             io_operations |-> CountType(steps, {"SET_IO", "WAIT_IO"}),
             frames_defined |-> Cardinality(DOMAIN frames),
             tools_defined |-> Cardinality(DOMAIN tools)]]
    /\ PROG_FILES' = Append(PROG_FILES, PROG_NAME \o <<".", "r", "u", "k", "i">>)
    /\ UNCHANGED <<frames, tools, targets, target_counter, io_map, steps,
                   instruction_index, heap, initial_state, subprograms,
                   current_subprogram, PROG_NAME, PROG_NAMES, prog_history, convVars>>

KeepForStep == <<initial_state, subprograms, current_subprogram, PROG_NAME,
                 PROG_NAMES, PROG_FILES, ruki_data, prog_history, convVars>>

MoveJ ==
    /\ StepAllowed
    /\ \E pose \in PoseArgs, joints \in JointArgs :
         LET t == _add_target(targets, target_counter, pose, joints, None)
         IN /\ targets' = t.targets
            /\ target_counter' = t.target_counter
            /\ _add_step("MOVE_J", [target |-> t.id])
    /\ UNCHANGED <<frames, tools, io_map, KeepForStep>>

MoveL ==
    /\ StepAllowed
    /\ \E pose \in {P1}, joints \in JointArgs :
         LET t == _add_target(targets, target_counter, pose, joints, None)
         IN /\ targets' = t.targets
            /\ target_counter' = t.target_counter
            /\ _add_step("MOVE_L", [target |-> t.id])
    /\ UNCHANGED <<frames, tools, io_map, KeepForStep>>

MoveC ==
    /\ StepAllowed
    /\ \E a1 \in MoveCArgs, a2 \in {<<P1, J1>>} :
         LET via == _add_target(targets, target_counter, a1[1], a1[2], None)
             end == _add_target(via.targets, via.target_counter, a2[1], a2[2], None)
         IN /\ targets' = end.targets
            /\ target_counter' = end.target_counter
            /\ _add_step("MOVE_C", [target_via |-> via.id, target_end |-> end.id])
    /\ UNCHANGED <<frames, tools, io_map, KeepForStep>>

setFrame ==
    /\ StepAllowed
    /\ \E pose \in {P2}, frame_id \in FrameIds, frame_name \in FrameNames :
         LET frame_key == IF frame_name # None THEN filter_name(frame_name)
                          ELSE <<"f", "r", "a", "m", "e", "_">> \o Digits(frame_id)
             frame_data == [parent |-> world,
                            pose |-> pose_to_xyzrpw_deg(pose),
                            frame_id |-> frame_id,
                            original_name |-> frame_name,
                            pose_matrix |-> pose_to_matrix(pose)]
         IN /\ frames' = (frame_key :> frame_data) @@ frames
            /\ _add_step("SET_FRAME", [frame |-> frame_key, frame_id |-> frame_id,
                                       frame_name |-> frame_name])
    /\ UNCHANGED <<tools, targets, target_counter, io_map, KeepForStep>>

setTool ==
    /\ StepAllowed
    /\ \E pose \in {P2}, tool_id \in FrameIds, tool_name \in ToolNames :
         LET tool_key == IF tool_name # None THEN filter_name(tool_name)
                         ELSE <<"t", "o", "o", "l", "_">> \o Digits(tool_id)
             tool_data == [tcp_pose |-> pose_to_xyzrpw_deg(pose),
                           tool_id |-> tool_id,
                           original_name |-> tool_name,
                           payload_mass |-> None,
                           payload_cog |-> None,
                           pose_matrix |-> pose_to_matrix(pose)]
         IN /\ tools' = (tool_key :> tool_data) @@ tools
            /\ _add_step("SET_TOOL", [tool |-> tool_key, tool_id |-> tool_id,
                                      tool_name |-> tool_name])
    /\ UNCHANGED <<frames, targets, target_counter, io_map, KeepForStep>>

setSpeed ==
    /\ StepAllowed
    /\ \E speed_mms \in {100} : _add_step("SET_SPEED", [speed_linear |-> speed_mms])
    /\ UNCHANGED <<frames, tools, targets, target_counter, io_map, KeepForStep>>

setSpeedJoints ==
    /\ StepAllowed
    /\ \E speed_degs \in {30} : _add_step("SET_SPEED", [speed_joints |-> speed_degs])
    /\ UNCHANGED <<frames, tools, targets, target_counter, io_map, KeepForStep>>

setAcceleration ==
    /\ StepAllowed
    /\ \E accel_mmss \in {1000} : _add_step("SET_ACCEL", [accel_linear |-> accel_mmss])
    /\ UNCHANGED <<frames, tools, targets, target_counter, io_map, KeepForStep>>

setAccelerationJoints ==
    /\ StepAllowed
    /\ \E accel_degss \in {90} : _add_step("SET_ACCEL", [accel_joints |-> accel_degss])
    /\ UNCHANGED <<frames, tools, targets, target_counter, io_map, KeepForStep>>

setZoneData ==
    /\ StepAllowed
    /\ \E zone_mm \in {5} : _add_step("SET_ROUNDING", [rounding |-> zone_mm])
    /\ UNCHANGED <<frames, tools, targets, target_counter, io_map, KeepForStep>>

setDO ==
    /\ StepAllowed
    /\ \E io_var \in IoIndices, io_value \in {1} :
         /\ io_map' = _get_io_ref(io_var, DO)
         /\ _add_step("SET_IO", [io_ref |-> IoRef(io_var, DO), io_type |-> DO,
                                 io_index |-> io_var, value |-> (io_value # 0)])
    /\ UNCHANGED <<frames, tools, targets, target_counter, KeepForStep>>

setAO ==
    /\ StepAllowed
    /\ \E io_var \in {IntVar(1)}, io_value \in {5} :
         /\ io_map' = _get_io_ref(io_var, AO)
         /\ _add_step("SET_IO", [io_ref |-> IoRef(io_var, AO), io_type |-> AO,
                                 io_index |-> io_var, value |-> io_value])
    /\ UNCHANGED <<frames, tools, targets, target_counter, KeepForStep>>

\* a duration in seconds is kept as <<milliseconds, 1000>>
waitDI ==
    /\ StepAllowed
    /\ \E io_var \in {IntVar(1)}, io_value \in {1}, timeout_ms \in {-1, 5000} :
         LET step_data == [io_ref |-> IoRef(io_var, DI), io_type |-> DI,
                           io_index |-> io_var, value |-> (io_value # 0)]
         IN /\ io_map' = _get_io_ref(io_var, DI)
            /\ _add_step("WAIT_IO",
                  IF timeout_ms > 0
                  THEN step_data @@ [timeout_s |-> <<timeout_ms, 1000>>]
                  ELSE step_data)
    /\ UNCHANGED <<frames, tools, targets, target_counter, KeepForStep>>

Pause ==
    /\ StepAllowed
    /\ \E time_ms \in {-1, 500} :
         _add_step("PAUSE",
            [duration_s |-> IF time_ms > 0 THEN <<time_ms, 1000>> ELSE None,
             is_user_pause |-> (time_ms < 0)])
    /\ UNCHANGED <<frames, tools, targets, target_counter, io_map, KeepForStep>>

RunCode ==
    /\ StepAllowed
    /\ \E code \in {"call"} :
         _add_step("RUN_CODE", [code |-> code, is_function_call |-> TRUE])
    /\ UNCHANGED <<frames, tools, targets, target_counter, io_map, KeepForStep>>

RunMessage ==
    /\ StepAllowed
    /\ \E iscomment \in BOOLEAN :
         _add_step("MESSAGE", [text |-> "msg", is_comment |-> iscomment])
    /\ UNCHANGED <<frames, tools, targets, target_counter, io_map, KeepForStep>>

(***************************************************************************)
(* The Builder after __init__, and its specification.                      *)
(***************************************************************************)
NoCall == [fn |-> "none", conversor |-> "none", has_robot_data |-> FALSE,
           ioerr |-> "none"]
NoResult == [raised |-> FALSE, returned |-> FALSE]

\* no conversion was made before, and the script post processor has not run
PostIdle ==
    /\ earlier = <<>>
    /\ PROG = <<>>
    /\ _last_joints_rad = None
    /\ post_calls = <<>>

ConvIdle ==
    /\ arquivo = [kind |-> "none"]
    /\ DADOS_ROBOS = <<>>
    /\ call = NoCall
    /\ result = NoResult
    /\ elems = <<>>
    /\ linhas_out = <<>>
    /\ files = {}
    /\ dirs = {}
    /\ PostIdle

BuilderInit ==
    /\ frames = (world :> [parent |-> None, pose |-> IdentityPose, kind |-> "implicit"])
    /\ tools = (tool0 :> [tcp_pose |-> IdentityPose, payload_mass |-> 0,
                          payload_cog |-> <<0, 0, 0>>, kind |-> "implicit"])
    /\ targets = <<>>
    /\ target_counter = 0
    /\ io_map = <<>>
    /\ steps = <<>>
    /\ instruction_index = 0
    /\ heap = <<DefaultState>>
    /\ initial_state = NoRef
    /\ subprograms = <<>>
    /\ current_subprogram = None
    /\ PROG_NAME = <<>>
    /\ PROG_NAMES = <<>>
    /\ PROG_FILES = <<>>
    /\ ruki_data = <<>>
    /\ prog_history = NoHistory

Init == BuilderInit /\ ConvIdle

Next ==
    \/ ProgStart
    \/ ProgFinish
    \/ ProgSave
    \/ MoveJ
    \/ MoveL
    \/ MoveC
    \/ setFrame
    \/ setTool
    \/ setSpeed
    \/ setSpeedJoints
    \/ setAcceleration
    \/ setAccelerationJoints
    \/ setZoneData
    \/ setDO
    \/ setAO
    \/ waitDI
    \/ Pause
    \/ RunCode
    \/ RunMessage

Spec == Init /\ [][Next]_vars

(***************************************************************************)
(* Emitters (assets/emitters/universal_robots.py).                         *)
(*                                                                         *)
(* A float is kept in fixed point: lengths and angles read from a file are *)
(* in thousandths of their unit, and an angle formatted with six decimals  *)
(* is in millionths of a radian.                                           *)
(***************************************************************************)
MaxLen == 3         \* steps of an input IR document, lines of an input script

\* d * pi / 180, from thousandths of a degree to millionths of a radian
deg2rad(d) == (d \div 1000) * 17453 + ((d % 1000) * 17453) \div 1000

\* r * 180 / pi, from thousandths of a radian to thousandths of a degree
rad2deg(r) == (r * 57296) \div 1000

Abs(v) == IF v < 0 THEN -v ELSE v

\* ler_ruki: json.load of the file; raises unless the file holds a document
ler_ruki(arq) ==
    IF arq.kind = "ir" THEN [raised |-> FALSE, data |-> arq.data]
    ELSE [raised |-> TRUE, data |-> <<>>]

\* a line of text that matches none of the parser's patterns
OtherLine == [head |-> "code", call |-> "none", hashjoints |-> FALSE]

\* ler_arquivo: the lines of the file (an IR document read as text holds no
\* script command); raises when the file cannot be opened
ler_arquivo(arq) ==
    CASE arq.kind = "script" -> [raised |-> FALSE, linhas |-> arq.linhas]
      [] arq.kind = "ir" -> [raised |-> FALSE, linhas |-> <<OtherLine>>]
      [] OTHER -> [raised |-> TRUE, linhas |-> <<>>]

\* m and len(m) == 4
IsMatrix4(m) == m # None /\ Len(m) = 4

NoPose == [ok |-> FALSE]

PiMilli == 3142      \* math.pi in thousandths of a radian

\* get_cartesian_pose: [x, y, z, rx, ry, rz] in thousandths of a metre and of a
\* radian.  The rotation vector is computed for the rotations pose_to_matrix
\* builds here: trace 3 is the angle 0, trace -1 the angle pi, where each
\* component is sqrt((R[i][i] + 1) / 2) * pi and no off-diagonal is negative.
get_cartesian_pose(target) ==
    IF "pose_matrix" \in DOMAIN target /\ IsMatrix4(target.pose_matrix)
    THEN LET m == target.pose_matrix
             trace == m[1][1] + m[2][2] + m[3][3]
             rv(i) == IF trace = 3 THEN 0
                      ELSE IF m[i][i] = 1 THEN PiMilli ELSE 0
         IN [ok |-> TRUE, pose |-> <<m[1][4], m[2][4], m[3][4], rv(1), rv(2), rv(3)>>]
    ELSE IF "pose" \in DOMAIN target /\ target.pose # None /\ Len(target.pose) >= 6
    THEN LET q == target.pose
         IN [ok |-> TRUE,
             pose |-> <<q[1], q[2], q[3],
                        deg2rad(q[4] * 1000) \div 1000, deg2rad(q[5] * 1000) \div 1000,
                        deg2rad(q[6] * 1000) \div 1000>>]
    ELSE NoPose

(***************************************************************************)
(* parse_script_moves.  A line is given by what the parser's patterns find *)
(* in it: head (how the stripped line starts), call (the call pattern that *)
(* matches), args (the captured array: parsed floats, or not parseable),   *)
(* comment (the #JOINTS capture) and, for an IO call, index and value.     *)
(***************************************************************************)
Take6(vals) == IF Len(vals) > 6 THEN SubSeq(vals, 1, 6) ELSE vals

AllUnder7_inclusive(vals) == \A i \in 1..Len(vals) : Abs(vals[i]) <= 7000

AllUnder7(vals) == \A i \in 1..Len(vals) : Abs(vals[i]) < 7000

\* if all(abs(v) < 7 for v in vals): vals = [rad2deg(v) for v in vals]
RadiansToDegrees(vals) ==
    IF AllUnder7(vals) THEN [i \in 1..Len(vals) |-> rad2deg(vals[i])] ELSE vals

\* joints_from_comment, None when there is no comment or it does not parse
JointsFromComment(line) ==
    IF "comment" \in DOMAIN line /\ line.comment.ok
    THEN RadiansToDegrees(Take6(line.comment.vals))
    ELSE None
\* every pattern is tried on the line, and an IO written after a move is kept
ParseLine_all_patterns(line) ==
    IF line.head \in {"blank", "def", "global", "end"} THEN <<>>
    ELSE IF line.head = "hash" /\ ~line.hashjoints THEN <<>>
    ELSE LET jc == JointsFromComment(line)
             io == IF "io_index" \in DOMAIN line
                   THEN <<[cmd |-> "io", index |-> line.io_index, value |-> line.io_value]>>
                   ELSE <<>>
         IN
    IF line.call = "movej"
    THEN IF line.args.ok
         THEN <<[cmd |-> "move", tipo |-> "MoveJ",
                 joints |-> IF jc # None THEN jc
                            ELSE RadiansToDegrees(Take6(line.args.vals))]>> \o io
         ELSE io
    ELSE IF line.call \in {"movel_p", "movel_pose_trans", "movel_array"}
    THEN LET pose_vals == IF line.args.ok THEN Take6(line.args.vals) ELSE None
         IN IF jc # None
            THEN <<[cmd |-> "move", tipo |-> "MoveL", joints |-> jc, pose |-> pose_vals]>> \o io
            ELSE IF pose_vals # None
            THEN <<[cmd |-> "move", tipo |-> "MoveL", pose |-> pose_vals]>> \o io
            ELSE io
    ELSE io

ParseLine_array_first(line) ==
    IF line.head \in {"blank", "def", "global", "end"} THEN <<>>
    ELSE IF line.head = "hash" /\ ~line.hashjoints THEN <<>>
    ELSE LET jc == JointsFromComment(line) IN
    IF line.call = "movej"
    THEN IF line.args.ok
         THEN <<[cmd |-> "move", tipo |-> "MoveJ",
                 joints |-> RadiansToDegrees(Take6(line.args.vals))]>>
         ELSE <<>>
    ELSE IF line.call \in {"movel_p", "movel_pose_trans", "movel_array"}
    THEN LET pose_vals == IF line.args.ok THEN Take6(line.args.vals) ELSE None
         IN IF jc # None
            THEN <<[cmd |-> "move", tipo |-> "MoveL", joints |-> jc, pose |-> pose_vals]>>
            ELSE IF pose_vals # None
            THEN <<[cmd |-> "move", tipo |-> "MoveL", pose |-> pose_vals]>>
            ELSE <<>>
    ELSE IF line.call = "io"
    THEN <<[cmd |-> "io", index |-> line.io_index, value |-> line.io_value]>>
    ELSE <<>>

\* the commands one line contributes
ParseLine(line) ==
    IF line.head \in {"blank", "def", "global", "end"} THEN <<>>
    ELSE IF line.head = "hash" /\ ~line.hashjoints THEN <<>>
    ELSE LET jc == JointsFromComment(line) IN
    IF line.call = "movej"
    THEN IF line.args.ok
         THEN <<[cmd |-> "move", tipo |-> "MoveJ",
                 joints |-> IF jc # None THEN jc
                            ELSE RadiansToDegrees(Take6(line.args.vals))]>>
         ELSE <<>>
    ELSE IF line.call \in {"movel_p", "movel_pose_trans", "movel_array"}
    THEN LET pose_vals == IF line.args.ok THEN Take6(line.args.vals) ELSE None
         IN IF jc # None
            THEN <<[cmd |-> "move", tipo |-> "MoveL", joints |-> jc, pose |-> pose_vals]>>
            ELSE IF pose_vals # None
            THEN <<[cmd |-> "move", tipo |-> "MoveL", pose |-> pose_vals]>>
            ELSE <<>>
    ELSE IF line.call = "io"
    THEN <<[cmd |-> "io", index |-> line.io_index, value |-> line.io_value]>>
    ELSE <<>>

RECURSIVE parse_script_moves(_)
parse_script_moves(linhas) ==
    IF linhas = <<>> THEN <<>>
    ELSE ParseLine(Head(linhas)) \o parse_script_moves(Tail(linhas))

(***************************************************************************)
(* Writing the output: os.makedirs(pasta, exist_ok=True), then the file.   *)
(* ioerr is what the file system does: "none", "mkdir" (the directory      *)
(* cannot be created) or "write" (the file is opened and the write fails). *)
(***************************************************************************)
WriteOutput(pasta, caminho, ioerr) ==
    CASE ioerr = "mkdir" -> [raised |-> TRUE, files |-> files, dirs |-> dirs]
      [] ioerr = "write" ->
            [raised |-> TRUE,
             files |-> {f \in files : f.path # caminho}
                          \cup {[path |-> caminho, complete |-> FALSE]},
             dirs |-> dirs \cup {pasta}]
      [] OTHER ->
            [raised |-> FALSE,
             files |-> {f \in files : f.path # caminho}
                          \cup {[path |-> caminho, complete |-> TRUE]},
             dirs |-> dirs \cup {pasta}]

\* what a converter did: it raised, or returned (ok, msg, path)
Raised(exc, fs, ds) ==
    [raised |-> TRUE, exc |-> exc, elems |-> <<>>, linhas |-> <<>>,
     files |-> fs, dirs |-> ds]

Returned(ok, msg, path, es, ls, fs, ds) ==
    [raised |-> FALSE, ok |-> ok, msg |-> msg, path |-> path,
     elems |-> es, linhas |-> ls, files |-> fs, dirs |-> ds]

NoPath == <<>>
Zeros6 == <<0, 0, 0, 0, 0, 0>>
EmptyDict == <<>>

\* {t['id']: t for t in targets}: a later target with the same id wins
RECURSIVE TargetsById(_)
TargetsById(tg) ==
    IF tg = <<>> THEN EmptyDict
    ELSE (tg[Len(tg)].id :> tg[Len(tg)]) @@ TargetsById(SubSeq(tg, 1, Len(tg) - 1))

\* targets.get(step.get('target'), {})
TargetOf(step, byId) ==
    IF "target" \in DOMAIN step /\ step.target \in DOMAIN byId
    THEN byId[step.target] ELSE EmptyDict

\* t.get('joints', [0]*6)
JointsOf(t) == IF "joints" \in DOMAIN t THEN t.joints ELSE Zeros6

Deg2RadAll(j) == [i \in 1..Len(j) |-> deg2rad(j[i])]

\* whole degrees, as the IR holds them, in thousandths of a degree
Milli(j) == [i \in 1..Len(j) |-> j[i] * 1000]

(***************************************************************************)
(* The archive's elements.  acc is the state of an emitter's loop:         *)
(* elems, the counters mc, ic, wp, skipped, and whether it raised.         *)
(***************************************************************************)
Acc0_carried == [elems |-> elems, linhas |-> <<>>, mc |-> Len(elems), ic |-> 0,
                 wp |-> Len(elems), skipped |-> 0, raised |-> FALSE]

Acc0 == [elems |-> <<>>, linhas |-> <<>>, mc |-> 0, ic |-> 0, wp |-> 0,
         skipped |-> 0, raised |-> FALSE]

\* the first element of either kind takes the direct attribute
UrpMove_first_of_any_kind(acc, motion, angles) ==
    [acc EXCEPT
        !.wp = @ + 1,
        !.elems = Append(@,
            [tag |-> "Move", motionType |-> motion,
             feature |-> IF acc.mc + acc.ic = 0
                         THEN [attr |-> "referencedName", value |-> "Joint_0_name"]
                         ELSE [attr |-> "reference", value |-> "../../Move/feature"],
             waypoint |-> acc.wp + 1,
             angles |-> angles]),
        !.mc = @ + 1]

\* wp += 1; the Move element with its feature and Waypoint; mc += 1
UrpMove(acc, motion, angles) ==
    [acc EXCEPT
        !.wp = @ + 1,
        !.elems = Append(@,
            [tag |-> "Move", motionType |-> motion,
             feature |-> IF acc.mc = 0
                         THEN [attr |-> "referencedName", value |-> "Joint_0_name"]
                         ELSE [attr |-> "reference", value |-> "../../Move/feature"],
             waypoint |-> acc.wp + 1,
             angles |-> angles]),
        !.mc = @ + 1]

\* the Set element with its pin and digitalValue; ic += 1
UrpSet(acc, index, value) ==
    [acc EXCEPT
        !.elems = Append(@,
            [tag |-> "Set",
             pin |-> IF acc.ic = 0
                     THEN [attr |-> "referencedName", value |-> <<"digital_out", index>>]
                     ELSE [attr |-> "reference", value |-> "../../Set/pin"],
             digitalValue |-> IF value THEN "1" ELSE "0"]),
        !.ic = @ + 1]

\* step.get('io_index', 0) and the truth of step.get('value')
IoIndexOf(step) == IF "io_index" \in DOMAIN step THEN step.io_index ELSE 0
IoValueOf(step) == "value" \in DOMAIN step /\ step.value = TRUE
\* the joints written as the IR holds them, in degrees
RukiUrpStep_degrees(acc, step, byId) ==
    IF step.type \in {"MOVE_J", "MOVE_L"}
    THEN LET j == JointsOf(TargetOf(step, byId))
         IN IF j = None THEN [acc EXCEPT !.raised = TRUE]
            ELSE UrpMove(acc, IF step.type = "MOVE_J" THEN "MoveJ" ELSE "MoveL",
                         Milli(j))
    ELSE IF step.type = "SET_IO"
    THEN UrpSet(acc, IoIndexOf(step), IoValueOf(step))
    ELSE acc

\* one iteration of ruki_para_urp's loop
RukiUrpStep(acc, step, byId) ==
    IF step.type \in {"MOVE_J", "MOVE_L"}
    THEN LET j == JointsOf(TargetOf(step, byId))
         IN IF j = None THEN [acc EXCEPT !.raised = TRUE]
            ELSE UrpMove(acc, IF step.type = "MOVE_J" THEN "MoveJ" ELSE "MoveL",
                         Deg2RadAll(Milli(j)))
    ELSE IF step.type = "SET_IO"
    THEN UrpSet(acc, IoIndexOf(step), IoValueOf(step))
    ELSE acc

RECURSIVE RukiUrpLoop(_, _, _)
RukiUrpLoop(acc, ss, byId) ==
    IF ss = <<>> \/ acc.raised THEN acc
    ELSE RukiUrpLoop(RukiUrpStep(acc, Head(ss), byId), Tail(ss), byId)

UrpPath(pasta, nome) == <<pasta, nome, ".urp">>

\* the robot data is looked at only once the archive is written
ruki_para_urp_late_check(arq, robot_data, pasta, ioerr) ==
    LET r == ler_ruki(arq) IN
    IF r.raised THEN Raised("read", files, dirs)
    ELSE LET acc == RukiUrpLoop(Acc0, r.data.steps, TargetsById(r.data.targets))
             caminho == UrpPath(pasta, r.data.program_name)
             w == WriteOutput(pasta, caminho, ioerr)
         IN IF acc.raised
            THEN [Raised("TypeError", files, dirs) EXCEPT !.elems = acc.elems]
            ELSE IF w.raised
            THEN [Raised("OSError", w.files, w.dirs) EXCEPT !.elems = acc.elems]
            ELSE IF robot_data = None
            THEN Returned(FALSE, [kind |-> "no_robot_data"], NoPath, acc.elems, <<>>,
                          w.files, w.dirs)
            ELSE Returned(TRUE,
                          [kind |-> "summary", modelo |-> robot_data.nome_completo,
                           mc |-> acc.mc, ic |-> acc.ic, warning |-> <<>>],
                          caminho, acc.elems, <<>>, w.files, w.dirs)

ruki_para_urp(arq, robot_data, pasta, ioerr) ==
    LET r == ler_ruki(arq) IN
    IF r.raised THEN Raised("read", files, dirs)
    ELSE IF robot_data = None
    THEN Returned(FALSE, [kind |-> "no_robot_data"], NoPath, <<>>, <<>>, files, dirs)
    ELSE LET acc == RukiUrpLoop(Acc0, r.data.steps, TargetsById(r.data.targets))
             caminho == UrpPath(pasta, r.data.program_name)
             w == WriteOutput(pasta, caminho, ioerr)
         IN IF acc.raised
            THEN [Raised("TypeError", files, dirs) EXCEPT !.elems = acc.elems]
            ELSE IF w.raised
            THEN [Raised("OSError", w.files, w.dirs) EXCEPT !.elems = acc.elems]
            ELSE Returned(TRUE,
                          [kind |-> "summary", modelo |-> robot_data.nome_completo,
                           mc |-> acc.mc, ic |-> acc.ic, warning |-> <<>>],
                          caminho, acc.elems, <<>>, w.files, w.dirs)

\* one iteration of script_para_urp's loop
\* a move without joints is dropped without being counted
ScriptUrpStep_skip_uncounted(acc, cmd) ==
    IF cmd.cmd = "move"
    THEN IF "joints" \notin DOMAIN cmd THEN acc
         ELSE UrpMove(acc, cmd.tipo, Deg2RadAll(cmd.joints))
    ELSE IF cmd.cmd = "io"
    THEN UrpSet(acc, cmd.index, cmd.value)
    ELSE acc

\* the part of the message added "if movel_sem_joints > 0": the count it reports
SkipWarning(n) == IF n > 0 THEN <<n>> ELSE <<>>

ScriptUrpStep(acc, cmd) ==
    IF cmd.cmd = "move"
    THEN IF "joints" \notin DOMAIN cmd THEN [acc EXCEPT !.skipped = @ + 1]
         ELSE UrpMove(acc, cmd.tipo, Deg2RadAll(cmd.joints))
    ELSE IF cmd.cmd = "io"
    THEN UrpSet(acc, cmd.index, cmd.value)
    ELSE acc

RECURSIVE ScriptUrpLoop(_, _)
ScriptUrpLoop(acc, cmds) ==
    IF cmds = <<>> THEN acc
    ELSE ScriptUrpLoop(ScriptUrpStep(acc, Head(cmds)), Tail(cmds))

script_para_urp(arq, robot_data, pasta, ioerr) ==
    LET r == ler_arquivo(arq) IN
    IF r.raised THEN Raised("read", files, dirs)
    ELSE IF robot_data = None
    THEN Returned(FALSE, [kind |-> "no_robot_data"], NoPath, <<>>, <<>>, files, dirs)
    ELSE LET acc == ScriptUrpLoop(Acc0, parse_script_moves(r.linhas))
             caminho == UrpPath(pasta, arq.nome)
             w == WriteOutput(pasta, caminho, ioerr)
         IN IF acc.mc = 0 /\ acc.ic = 0
            THEN Returned(FALSE, [kind |-> "no_commands"], NoPath, acc.elems, <<>>,
                          files, dirs)
            ELSE IF w.raised
            THEN [Raised("OSError", w.files, w.dirs) EXCEPT !.elems = acc.elems]
            ELSE Returned(TRUE,
                          [kind |-> "summary", mc |-> acc.mc, ic |-> acc.ic,
                           warning |-> SkipWarning(acc.skipped)],
                          caminho, acc.elems, <<>>, w.files, w.dirs)

\* f"{x:.3f}" of a non-negative value in millionths: thousandths, rounded
Format3f(x) == (x + 500) \div 1000

ScriptPath(pasta, nome) == <<pasta, nome, ".script">>

\* the def line and the globals computed from the IR's initial state
ScriptHeader(nome, ini) ==
    <<[kind |-> "def", nome |-> nome],
      [kind |-> "globals",
       speed_ms |-> ini.speed_linear,
       speed_rads |-> Format3f(deg2rad(ini.speed_joints * 1000)),
       accel_mss |-> ini.accel_linear,
       accel_radss |-> Format3f(deg2rad(ini.accel_joints * 1000)),
       blend_radius_m |-> ini.rounding]>>

\* a move that was skipped is counted all the same
RukiScriptStep_counts_skipped(acc, step, byId) ==
    LET t == TargetOf(step, byId) IN
    IF step.type = "MOVE_J"
    THEN IF JointsOf(t) = None THEN [acc EXCEPT !.raised = TRUE]
         ELSE [acc EXCEPT
                 !.linhas = Append(@, [kind |-> "movej",
                                       angles |-> Deg2RadAll(Milli(JointsOf(t)))]),
                 !.mc = @ + 1]
    ELSE IF step.type = "MOVE_L"
    THEN IF get_cartesian_pose(t).ok
         THEN [acc EXCEPT
                 !.linhas = Append(@, [kind |-> "movel",
                                       pose |-> get_cartesian_pose(t).pose]),
                 !.mc = @ + 1]
         ELSE [acc EXCEPT !.mc = @ + 1]
    ELSE IF step.type = "SET_IO"
    THEN [acc EXCEPT
            !.linhas = Append(@, [kind |-> "set_standard_digital_out",
                                  index |-> IoIndexOf(step), value |-> IoValueOf(step)]),
            !.ic = @ + 1]
    ELSE IF step.type = "MESSAGE" /\ "is_comment" \in DOMAIN step /\ step.is_comment
    THEN [acc EXCEPT !.linhas = Append(@, [kind |-> "comment", text |-> step.text])]
    ELSE acc

\* one iteration of ruki_para_script's loop
RukiScriptStep(acc, step, byId) ==
    LET t == TargetOf(step, byId) IN
    IF step.type = "MOVE_J"
    THEN IF JointsOf(t) = None THEN [acc EXCEPT !.raised = TRUE]
         ELSE [acc EXCEPT
                 !.linhas = Append(@, [kind |-> "movej",
                                       angles |-> Deg2RadAll(Milli(JointsOf(t)))]),
                 !.mc = @ + 1]
    ELSE IF step.type = "MOVE_L"
    THEN IF get_cartesian_pose(t).ok
         THEN [acc EXCEPT
                 !.linhas = Append(@, [kind |-> "movel",
                                       pose |-> get_cartesian_pose(t).pose]),
                 !.mc = @ + 1]
         ELSE acc
    ELSE IF step.type = "SET_IO"
    THEN [acc EXCEPT
            !.linhas = Append(@, [kind |-> "set_standard_digital_out",
                                  index |-> IoIndexOf(step), value |-> IoValueOf(step)]),
            !.ic = @ + 1]
    ELSE IF step.type = "MESSAGE" /\ "is_comment" \in DOMAIN step /\ step.is_comment
    THEN [acc EXCEPT !.linhas = Append(@, [kind |-> "comment", text |-> step.text])]
    ELSE acc

RECURSIVE RukiScriptLoop(_, _, _)
RukiScriptLoop(acc, ss, byId) ==
    IF ss = <<>> \/ acc.raised THEN acc
    ELSE RukiScriptLoop(RukiScriptStep(acc, Head(ss), byId), Tail(ss), byId)

ruki_para_script(arq, robot_data, pasta, ioerr) ==
    LET r == ler_ruki(arq) IN
    IF r.raised THEN Raised("read", files, dirs)
    ELSE LET nome == r.data.program_name
             acc == RukiScriptLoop([Acc0 EXCEPT !.linhas = ScriptHeader(nome, r.data.initial_state)],
                                   r.data.steps, TargetsById(r.data.targets))
             caminho == ScriptPath(pasta, nome)
             w == WriteOutput(pasta, caminho, ioerr)
         IN IF acc.raised
            THEN [Raised("TypeError", files, dirs) EXCEPT !.linhas = acc.linhas]
            ELSE IF w.raised
            THEN [Raised("OSError", w.files, w.dirs) EXCEPT !.linhas = acc.linhas]
            ELSE Returned(TRUE,
                          [kind |-> "summary", mc |-> acc.mc, ic |-> acc.ic, warning |-> <<>>],
                          caminho, <<>>,
                          acc.linhas \o <<[kind |-> "end"], [kind |-> "call", nome |-> nome]>>,
                          w.files, w.dirs)

RoboDKPath(pasta, nome) == <<pasta, nome, "_RoboDK.py">>

\* one iteration of script_para_robodk's loop
ScriptRobodkStep(acc, cmd) ==
    IF cmd.cmd = "move"
    THEN IF cmd.tipo = "MoveJ" /\ "joints" \in DOMAIN cmd
         THEN [acc EXCEPT !.linhas = Append(@, [kind |-> "robot.MoveJ", joints |-> cmd.joints]),
                          !.mc = @ + 1]
         ELSE IF cmd.tipo = "MoveL"
         THEN IF "pose" \in DOMAIN cmd
              THEN IF cmd.pose = None \/ Len(cmd.pose) < 6
                   THEN [acc EXCEPT !.raised = TRUE]
                   ELSE [acc EXCEPT
                           !.linhas = Append(@, [kind |-> "robot.MoveL", pose |-> cmd.pose]),
                           !.mc = @ + 1]
              ELSE IF "joints" \in DOMAIN cmd
              THEN [acc EXCEPT
                      !.linhas = Append(@, [kind |-> "robot.MoveL", joints |-> cmd.joints]),
                      !.mc = @ + 1]
              ELSE acc
         ELSE acc
    ELSE IF cmd.cmd = "io"
    THEN [acc EXCEPT
            !.linhas = Append(@, [kind |-> "robot.setDO", index |-> cmd.index,
                                  value |-> IF cmd.value THEN 1 ELSE 0]),
            !.ic = @ + 1]
    ELSE acc

RECURSIVE ScriptRobodkLoop(_, _)
ScriptRobodkLoop(acc, cmds) ==
    IF cmds = <<>> \/ acc.raised THEN acc
    ELSE ScriptRobodkLoop(ScriptRobodkStep(acc, Head(cmds)), Tail(cmds))

script_para_robodk(arq, robot_data, pasta, ioerr) ==
    LET r == ler_arquivo(arq) IN
    IF r.raised THEN Raised("read", files, dirs)
    ELSE LET nome_robo == IF robot_data # None THEN robot_data.robodk_nome ELSE "UR20"
             acc == ScriptRobodkLoop([Acc0 EXCEPT !.linhas = <<[kind |-> "robot", nome |-> nome_robo]>>],
                                     parse_script_moves(r.linhas))
             caminho == RoboDKPath(pasta, arq.nome)
             w == WriteOutput(pasta, caminho, ioerr)
         IN IF acc.raised
            THEN [Raised("TypeError", files, dirs) EXCEPT !.linhas = acc.linhas]
            ELSE IF w.raised
            THEN [Raised("OSError", w.files, w.dirs) EXCEPT !.linhas = acc.linhas]
            ELSE Returned(TRUE,
                          [kind |-> "summary", mc |-> acc.mc, ic |-> acc.ic, warning |-> <<>>],
                          caminho, <<>>, acc.linhas, w.files, w.dirs)

(***************************************************************************)
(* The conversion table and the entry point of Ruki_C.                     *)
(***************************************************************************)
CONVERSOES ==
    (".ruki -> .script" :> "ruki_para_script") @@
    (".ruki -> .urp" :> "ruki_para_urp") @@
    (".script -> .urp" :> "script_para_urp") @@
    (".script -> .py" :> "script_para_robodk")

\* info['conversor'](arquivo, robot_data, pasta)
Conversor(fn, arq, robot_data, pasta, ioerr) ==
    CASE fn = "ruki_para_script" -> ruki_para_script(arq, robot_data, pasta, ioerr)
      [] fn = "ruki_para_urp" -> ruki_para_urp(arq, robot_data, pasta, ioerr)
      [] fn = "script_para_urp" -> script_para_urp(arq, robot_data, pasta, ioerr)
      [] fn = "script_para_robodk" -> script_para_robodk(arq, robot_data, pasta, ioerr)

\* carregar_emitter finds a module only for the brands shipped in assets/emitters
HasEmitter(marca) == marca = "Universal Robots"

\* the brands of the catalog whose emitter loaded
EMITTERS == {marca \in DOMAIN DADOS_ROBOS : HasEmitter(marca)}

get_robot_data_default_first(marca, modelo) ==
    IF marca \notin DOMAIN DADOS_ROBOS THEN None
    ELSE LET d == DADOS_ROBOS[marca]
         IN IF d.modelo_padrao \in DOMAIN d.robos THEN d.robos[d.modelo_padrao]
            ELSE IF modelo \in DOMAIN d.robos THEN d.robos[modelo]
            ELSE None

get_robot_data(marca, modelo) ==
    IF marca \notin DOMAIN DADOS_ROBOS THEN None
    ELSE LET d == DADOS_ROBOS[marca]
         IN IF modelo \in DOMAIN d.robos THEN d.robos[modelo]
            ELSE IF d.modelo_padrao \in DOMAIN d.robos THEN d.robos[d.modelo_padrao]
            ELSE None

\* the converter's exception is let through
executar_conversao_no_except(marca, conv, arq, modelo, pasta, ioerr) ==
    IF marca \notin EMITTERS
    THEN Returned(FALSE, [kind |-> "no_emitter"], NoPath, <<>>, <<>>, files, dirs)
         @@ [conversor |-> "none"]
    ELSE IF conv \notin DOMAIN CONVERSOES
    THEN Returned(FALSE, [kind |-> "no_conversion"], NoPath, <<>>, <<>>, files, dirs)
         @@ [conversor |-> "none"]
    ELSE Conversor(CONVERSOES[conv], arq, get_robot_data(marca, modelo), pasta, ioerr)
         @@ [conversor |-> CONVERSOES[conv]]

executar_conversao(marca, conv, arq, modelo, pasta, ioerr) ==
    IF marca \notin EMITTERS
    THEN Returned(FALSE, [kind |-> "no_emitter"], NoPath, <<>>, <<>>, files, dirs)
         @@ [conversor |-> "none"]
    ELSE IF conv \notin DOMAIN CONVERSOES
    THEN Returned(FALSE, [kind |-> "no_conversion"], NoPath, <<>>, <<>>, files, dirs)
         @@ [conversor |-> "none"]
    ELSE LET r == Conversor(CONVERSOES[conv], arq, get_robot_data(marca, modelo),
                            pasta, ioerr)
         IN (IF r.raised
             THEN Returned(FALSE, [kind |-> "erro", exc |-> r.exc], NoPath,
                           r.elems, r.linhas, r.files, r.dirs)
             ELSE r) @@ [conversor |-> CONVERSOES[conv]]

(***************************************************************************)
(* Inputs of the conversions: IR documents as the Builder writes them, and *)
(* script files given line by line.                                        *)
(***************************************************************************)
\* the targets MoveJ(None, J1), MoveL(P1, None) and MoveL(P1, J1) leave, and
\* a fourth as MoveL(P1, J1) leaves it when INCLUDE_MATRICES is off
PoolTargets ==
    LET a == _add_target(<<>>, 0, None, J1, None)
        b == _add_target(a.targets, a.target_counter, P1, None, None)
        c == _add_target(b.targets, b.target_counter, P1, J1, None)
        d == _add_target(c.targets, c.target_counter, P1, J1, None)
    IN Append(c.targets, Without(d.targets[4], "pose_matrix"))

StepShapes ==
    {[type |-> "MOVE_J", target |-> TargetId(1)],
     [type |-> "MOVE_J", target |-> TargetId(2)],
     [type |-> "MOVE_L", target |-> TargetId(1)],
     [type |-> "MOVE_L", target |-> TargetId(2)],
     [type |-> "MOVE_L", target |-> TargetId(4)],
     [type |-> "MOVE_J", target |-> TargetId(9)],
     [type |-> "SET_IO", io_index |-> 1, value |-> TRUE],
     [type |-> "MESSAGE", text |-> <<"o", "k">>, is_comment |-> TRUE]}

RadJ == <<0, -1571, 0, -1571, 0, 0>>
RadP == <<600, 300, 400, 0, 3142, 0>>
Parsed(vals) == [ok |-> TRUE, vals |-> vals]
Unparsed == [ok |-> FALSE, vals |-> <<>>]

LineShapes ==
    {[head |-> "code", call |-> "movej", args |-> Parsed(RadJ), hashjoints |-> FALSE],
     [head |-> "code", call |-> "movej", args |-> Unparsed, hashjoints |-> FALSE],
     [head |-> "code", call |-> "movel_p", args |-> Parsed(RadP),
      comment |-> Parsed(RadJ), hashjoints |-> FALSE],
     [head |-> "code", call |-> "movel_p", args |-> Parsed(RadP), hashjoints |-> FALSE],
     [head |-> "code", call |-> "movel_p", args |-> Unparsed,
      comment |-> Parsed(RadJ), hashjoints |-> FALSE],
     [head |-> "code", call |-> "io", io_index |-> 2, io_value |-> FALSE,
      hashjoints |-> FALSE],
     [head |-> "blank", call |-> "none", hashjoints |-> FALSE]}

SeqsUpTo(S, n) == UNION {[1..k -> S] : k \in 0..n}

IRFiles ==
    {[kind |-> "ir", nome |-> "prog",
      data |-> [program_name |-> "prog", initial_state |-> DefaultState,
                targets |-> PoolTargets, steps |-> ss]] : ss \in SeqsUpTo(StepShapes, MaxLen)}

ScriptFiles ==
    {[kind |-> "script", nome |-> "prog", linhas |-> ls] : ls \in SeqsUpTo(LineShapes, MaxLen)}

\* a path that cannot be opened
MissingFile == [kind |-> "missing", nome |-> "prog"]

UR20 == [nome_completo |-> "Universal Robots UR20", robodk_nome |-> "UR20",
         urp |-> "kinematics"]

\* the catalog after loading: brands without an emitter are dropped from it
Catalogs ==
    {("Universal Robots" :> [modelo_padrao |-> "UR20", robos |-> ("UR20" :> UR20)]),
     ("Universal Robots" :> [modelo_padrao |-> "", robos |-> ("UR20" :> UR20)])}

Marcas == {"Universal Robots", "KUKA"}
Modelos == {"UR20", "UR99"}
ConvNames == DOMAIN CONVERSOES \cup {".urp -> .ruki"}
IoErrors == {"none", "mkdir", "write"}
RobotDataArgs == {None, UR20}
Pasta == "out"

\* the outcome of a call, as the caller sees it, and what it left behind
Outcome(c, r) ==
    /\ call' = c
    /\ result' = IF r.raised THEN [raised |-> TRUE, returned |-> FALSE, exc |-> r.exc]
                 ELSE [raised |-> FALSE, returned |-> TRUE, ok |-> r.ok, msg |-> r.msg,
                       path |-> r.path]
    /\ elems' = r.elems
    /\ linhas_out' = r.linhas
    /\ files' = r.files
    /\ dirs' = r.dirs
    /\ UNCHANGED <<builderVars, arquivo, DADOS_ROBOS, scriptPostVars>>

\* a first conversion
Finish(c, r) == Outcome(c, r) /\ UNCHANGED earlier

DirectCall(fn, rd, io) ==
    [fn |-> fn, conversor |-> fn, has_robot_data |-> (rd # None), ioerr |-> io]

EmitRukiScript ==
    /\ call = NoCall
    /\ \E rd \in RobotDataArgs, io \in IoErrors :
          Finish(DirectCall("ruki_para_script", rd, io),
                 ruki_para_script(arquivo, rd, Pasta, io))

EmitRukiUrp ==
    /\ call = NoCall
    /\ \E rd \in RobotDataArgs, io \in IoErrors :
          Finish(DirectCall("ruki_para_urp", rd, io),
                 ruki_para_urp(arquivo, rd, Pasta, io))

EmitScriptUrp ==
    /\ call = NoCall
    /\ \E rd \in RobotDataArgs, io \in IoErrors :
          Finish(DirectCall("script_para_urp", rd, io),
                 script_para_urp(arquivo, rd, Pasta, io))

EmitScriptRobodk ==
    /\ call = NoCall
    /\ \E rd \in RobotDataArgs, io \in IoErrors :
          Finish(DirectCall("script_para_robodk", rd, io),
                 script_para_robodk(arquivo, rd, Pasta, io))

ExecutarConversao ==
    /\ call = NoCall
    /\ \E marca \in Marcas, conv \in ConvNames, modelo \in Modelos, io \in IoErrors :
          LET r == executar_conversao(marca, conv, arquivo, modelo, Pasta, io)
          IN Finish([fn |-> "executar_conversao", conversor |-> r.conversor,
                     marca |-> marca, conv |-> conv,
                     has_robot_data |-> (get_robot_data(marca, modelo) # None),
                     ioerr |-> io], r)

InitConv ==
    /\ BuilderInit
    /\ arquivo \in IRFiles \cup ScriptFiles \cup {MissingFile}
    /\ DADOS_ROBOS \in Catalogs
    /\ call = NoCall
    /\ result = NoResult
    /\ elems = <<>>
    /\ linhas_out = <<>>
    /\ files = {}
    /\ dirs = {}
    /\ PostIdle

NextConv ==
    \/ EmitRukiScript
    \/ EmitRukiUrp
    \/ EmitScriptUrp
    \/ EmitScriptRobodk
    \/ ExecutarConversao

SpecConv == InitConv /\ [][NextConv]_vars

(***************************************************************************)
(* An IR document converted a second time in the same process: the output  *)
(* folder holds what the first conversion left there.                      *)
(***************************************************************************)
IREmitters == {"ruki_para_script", "ruki_para_urp"}

ConvertAgain ==
    /\ call.fn \in IREmitters
    /\ earlier = <<>>
    /\ earlier' = <<[call |-> call, result |-> result, elems |-> elems,
                     linhas_out |-> linhas_out]>>
    /\ \E fn \in IREmitters, rd \in RobotDataArgs :
          Outcome(DirectCall(fn, rd, "none"), Conversor(fn, arquivo, rd, Pasta, "none"))

InitAgain ==
    /\ BuilderInit
    /\ arquivo \in IRFiles \cup {MissingFile}
    /\ DADOS_ROBOS = <<>>
    /\ call = NoCall
    /\ result = NoResult
    /\ elems = <<>>
    /\ linhas_out = <<>>
    /\ files = {}
    /\ dirs = {}
    /\ PostIdle

NextAgain ==
    \/ EmitRukiScript
    \/ EmitRukiUrp
    \/ ConvertAgain

SpecAgain == InitAgain /\ [][NextAgain]_vars

(***************************************************************************)
(* Catalog lookup and model detection: get_robot_data, detectar_modelo_ruki *)
(* and detectar_modelo_script of Ruki_C.py, detectar_modelo of the emitter.*)
(* Model keys, robot names and script text are character sequences here.   *)
(***************************************************************************)
LowerCase == <<"a", "b", "c", "d", "e", "f", "g", "h", "i", "j", "k", "l", "m",
               "n", "o", "p", "q", "r", "s", "t", "u", "v", "w", "x", "y", "z">>
UpperCase == <<"A", "B", "C", "D", "E", "F", "G", "H", "I", "J", "K", "L", "M",
               "N", "O", "P", "Q", "R", "S", "T", "U", "V", "W", "X", "Y", "Z">>

\* str.upper()
upper(s) ==
    [i \in 1..Len(s) |->
        IF \E k \in 1..26 : LowerCase[k] = s[i]
        THEN UpperCase[CHOOSE k \in 1..26 : LowerCase[k] = s[i]]
        ELSE s[i]]

\* m in s, for two str
In(m, s) == \E i \in 1..(Len(s) - Len(m) + 1) : SubSeq(s, i, i + Len(m) - 1) = m

KeySet(ks) == {ks[i] : i \in 1..Len(ks)}

\* the first element of a key list that is among the matching ones, None
\* when none is
FirstKey(ks, matching) ==
    IF \E i \in 1..Len(ks) : ks[i] \in matching
    THEN ks[CHOOSE i \in 1..Len(ks) :
                /\ ks[i] \in matching
                /\ \A j \in 1..(i - 1) : ks[j] \notin matching]
    ELSE None


\* '\n'.join(linhas)
RECURSIVE Join(_)
Join(linhas) ==
    IF linhas = <<>> THEN <<>>
    ELSE IF Len(linhas) = 1 THEN Head(linhas)
    ELSE LET h == Len(linhas) \div 2
         IN Join(SubSeq(linhas, 1, h)) \o <<"\n">> \o Join(SubSeq(linhas, h + 1, Len(linhas)))

\* linhas[:100]
First100(linhas) == SubSeq(linhas, 1, IF Len(linhas) < 100 THEN Len(linhas) ELSE 100)

\* \b of the regular expression: between position k-1 and position k of s,
\* exactly one side is a word character
IsWordAt(s, k) == k \in 1..Len(s) /\ s[k] \in AlnumChars \cup {"_"}
WordBoundary(s, k) == IsWordAt(s, k - 1) # IsWordAt(s, k)

\* re.search(re.escape(m), texto, re.IGNORECASE)
SearchIgnoreCase(m, texto) == In(upper(m), upper(texto))

\* re.search(r'\b' + re.escape(m) + r'\b', texto, re.IGNORECASE)
SearchWord(m, texto) ==
    \E i \in 1..(Len(texto) - Len(m) + 1) :
        /\ upper(SubSeq(texto, i, i + Len(m) - 1)) = upper(m)
        /\ WordBoundary(texto, i)
        /\ WordBoundary(texto, i + Len(m))

\* data.get('robot', {}).get('name', '')
RobotName(data) == data.robot.name

\* Ruki_C.detectar_modelo_script
detectar_modelo_script(linhas, marca) ==
    IF marca \notin DOMAIN DADOS_ROBOS THEN None
    ELSE LET texto == Join(First100(linhas))
             ks == DADOS_ROBOS[marca].keys
             Hit(modelo) == SearchIgnoreCase(modelo, texto)
         IN FirstKey(ks, {m \in KeySet(ks) : Hit(m)})

\* Ruki_C.detectar_modelo_ruki
detectar_modelo_ruki(data, marca) ==
    IF marca \notin DOMAIN DADOS_ROBOS THEN None
    ELSE LET robot_name == RobotName(data)
             Hit(modelo) == In(upper(modelo), upper(robot_name))
         IN IF robot_name \in DOMAIN DADOS_ROBOS[marca].robos THEN robot_name
            ELSE FirstKey(DADOS_ROBOS[marca].keys,
                          {m \in KeySet(DADOS_ROBOS[marca].keys) : Hit(m)})

\* universal_robots.detectar_modelo: robos is the brand's model dict, whose
\* keys() are in declaration order; anything raised inside is swallowed
detectar_modelo(arq, robos_keys) ==
    IF arq.ruki
    THEN LET r == ler_ruki(arq)
             nome == RobotName(r.data)
             Hit(m) == In(m, nome) \/ In(upper(m), upper(nome))
         IN IF r.raised THEN None ELSE FirstKey(robos_keys, {m \in KeySet(robos_keys) : Hit(m)})
    ELSE LET r == ler_arquivo(arq)
             texto == Join(First100(r.linhas))
             Hit(m) == SearchWord(m, texto)
         IN IF r.raised THEN None ELSE FirstKey(robos_keys, {m \in KeySet(robos_keys) : Hit(m)})

\* ---- inputs ----
UR10k == <<"U", "R", "1", "0">>
UR10ek == <<"U", "R", "1", "0", "e">>
UR20k == <<"U", "R", "2", "0">>
UR5k == <<"U", "R", "5">>
Brand == "Universal Robots"

ModelRecord(k) == [robodk_nome |-> k, urp |-> "kinematics"]

\* catalogs as loaded: the brand's models in the order the file declares them
DetectCatalogs ==
    {(Brand :> [modelo_padrao |-> UR20k, keys |-> <<UR10k, UR10ek, UR20k>>,
                robos |-> [k \in {UR10k, UR10ek, UR20k} |-> ModelRecord(k)]]),
     (Brand :> [modelo_padrao |-> <<>>, keys |-> <<UR10ek, UR10k, UR20k>>,
                robos |-> [k \in {UR10k, UR10ek, UR20k} |-> ModelRecord(k)]]),
     (Brand :> [modelo_padrao |-> UR5k, keys |-> <<UR20k>>,
                robos |-> [k \in {UR20k} |-> ModelRecord(k)]])}

RobotNames ==
    {UR10ek,
     <<"u", "r", "2", "0">>,
     <<"m", "y", " ", "U", "R", "1", "0", "E", " ", "c", "e", "l", "l">>,
     <<"K", "R", "6">>}

Blank100 == [i \in 1..100 |-> <<>>]

ScriptTexts ==
    {<< <<"#", " ", "u", "r", "2", "0">>, <<"m", "o", "v", "e", "j">> >>,
     << <<"#", " ", "U", "R", "2", "0", "0">> >>,
     << <<"d", "e", "f", " ", "U", "R", "1", "0", "e", "(", ")", ":">> >>,
     << <<"m", "o", "v", "e", "j">> >>,
     SubSeq(Blank100, 1, 99) \o << UR20k >>,
     Blank100 \o << UR20k >>}

\* picked files: IR documents (*.ruki), script text, script text in a file
\* named *.ruki (not a JSON document), and a path that cannot be opened
DetectFiles ==
    {[kind |-> "ir", nome |-> "prog", ruki |-> TRUE, data |-> [robot |-> [name |-> n]]] :
        n \in RobotNames}
    \cup {[kind |-> "script", nome |-> "prog", ruki |-> FALSE, linhas |-> t] :
             t \in ScriptTexts}
    \cup {[kind |-> "script", nome |-> "prog", ruki |-> TRUE, linhas |-> << UR20k >>],
          [kind |-> "missing", nome |-> "prog", ruki |-> TRUE],
          [kind |-> "missing", nome |-> "prog", ruki |-> FALSE]}

LookupModels == {UR10k, UR10ek, UR20k, UR5k, None}

\* a call that returned a value
Answer(c, v) ==
    /\ call' = c
    /\ result' = [raised |-> FALSE, returned |-> TRUE, value |-> v]
    /\ UNCHANGED <<builderVars, arquivo, DADOS_ROBOS, elems, linhas_out, files, dirs,
                   earlier, scriptPostVars>>

GetRobotData ==
    \E marca \in DOMAIN DADOS_ROBOS \cup {"KUKA"}, modelo \in LookupModels :
        Answer([fn |-> "get_robot_data", marca |-> marca, modelo |-> modelo],
               get_robot_data(marca, modelo))

DetectarModelo ==
    \E marca \in DOMAIN DADOS_ROBOS :
        Answer([fn |-> "detectar_modelo", marca |-> marca],
               detectar_modelo(arquivo, DADOS_ROBOS[marca].keys))

DetectarModeloRuki ==
    /\ ~ler_ruki(arquivo).raised
    /\ \E marca \in Marcas :
        Answer([fn |-> "detectar_modelo_ruki", marca |-> marca],
               detectar_modelo_ruki(ler_ruki(arquivo).data, marca))

DetectarModeloScript ==
    /\ ~ler_arquivo(arquivo).raised
    /\ arquivo.kind = "script"
    /\ \E marca \in Marcas :
        Answer([fn |-> "detectar_modelo_script", marca |-> marca],
               detectar_modelo_script(ler_arquivo(arquivo).linhas, marca))

InitCat ==
    /\ BuilderInit
    /\ arquivo \in DetectFiles
    /\ DADOS_ROBOS \in DetectCatalogs
    /\ call = NoCall
    /\ result = NoResult
    /\ elems = <<>>
    /\ linhas_out = <<>>
    /\ files = {}
    /\ dirs = {}
    /\ PostIdle

NextCat ==
    \/ GetRobotData
    \/ DetectarModelo
    \/ DetectarModeloRuki
    \/ DetectarModeloScript

SpecCat == InitCat /\ [][NextCat]_vars

(***************************************************************************)
(* The script parser on its own: parse_script_moves applied to move lines  *)
(* whose value lists are in radians, in degrees, mixed, and at the limit   *)
(* of the radians test.  Values are thousandths.                           *)
(***************************************************************************)
MaxLines == 2       \* lines of a parsed script

DegJ == <<0, -90000, 0, -90000, 0, 0>>
MixedJ == <<1000, 90000, 0, 0, 0, -6999>>
AtLimitJ == <<7000, 0, 0, 0, 0, 0>>
SevenJ == <<0, 1571, 0, 0, 0, -1571, 90000>>
ValueLists == {<<0, -1571, 0, -1571, 0, 0>>, DegJ, MixedJ, AtLimitJ, SevenJ}
PoseLists == {<<600, 300, 400, 0, 3142, 0>>, <<600000, 300000, 400000, 0, 3142, 0>>}

\* move lines: movej([..]), movel(p[..]) and movel([..]), with and without a
\* #JOINTS:[..] comment after the call
MoveLines ==
    {[head |-> "code", call |-> "movej", args |-> Parsed(v), hashjoints |-> FALSE] :
        v \in ValueLists}
    \cup {[head |-> "code", call |-> "movej", args |-> Parsed(v), comment |-> Parsed(c),
            hashjoints |-> FALSE] : v \in {DegJ}, c \in ValueLists}
    \cup {[head |-> "code", call |-> "movel_p", args |-> Parsed(v), hashjoints |-> FALSE] :
             v \in PoseLists}
    \cup {[head |-> "code", call |-> "movel_p", args |-> Parsed(v), comment |-> Parsed(c),
            hashjoints |-> FALSE] : v \in PoseLists, c \in ValueLists}
    \cup {[head |-> "code", call |-> "movel_array", args |-> Parsed(v), hashjoints |-> FALSE] :
             v \in ValueLists}

\* lines that are not a plain move: a comment that does not parse, an array
\* that does not parse, an IO call, a move followed by an IO call on the same
\* line, and the lines the loop skips (blank, def, global, end, # comments)
RadL == <<0, -1571, 0, -1571, 0, 0>>
PoseL == <<600, 300, 400, 0, 3142, 0>>
SkippedHeads == {"blank", "def", "global", "end"}

OtherLines ==
    {[head |-> "code", call |-> c, args |-> Parsed(IF c = "movej" THEN DegJ ELSE PoseL),
      comment |-> Unparsed, hashjoints |-> FALSE] : c \in {"movej", "movel_p"}}
    \cup {[head |-> "code", call |-> c, args |-> Unparsed, comment |-> Parsed(RadL),
            hashjoints |-> FALSE] : c \in {"movej", "movel_p"}}
    \cup {[head |-> "code", call |-> "movel_p", args |-> Unparsed, hashjoints |-> FALSE],
          [head |-> "code", call |-> "io", io_index |-> 2, io_value |-> TRUE,
           hashjoints |-> FALSE],
          [head |-> "code", call |-> "movej", args |-> Parsed(RadL), io_index |-> 2,
           io_value |-> TRUE, hashjoints |-> FALSE],
          [head |-> "code", call |-> "movel_p", args |-> Unparsed, io_index |-> 2,
           io_value |-> TRUE, hashjoints |-> FALSE],
          [head |-> "hash", call |-> "movej", args |-> Parsed(RadL), hashjoints |-> FALSE],
          [head |-> "hash", call |-> "movel_p", args |-> Parsed(PoseL),
           comment |-> Parsed(DegJ), hashjoints |-> TRUE]}
    \cup {[head |-> h, call |-> "movej", args |-> Parsed(RadL), hashjoints |-> FALSE] :
             h \in SkippedHeads \ {"blank"}}
    \cup {[head |-> "blank", call |-> "none", hashjoints |-> FALSE]}

ParseFiles ==
    {[kind |-> "script", nome |-> "prog", linhas |-> ls] :
        ls \in SeqsUpTo(MoveLines \cup OtherLines, MaxLines)}

ParseScriptMoves ==
    /\ call = NoCall
    /\ ~ler_arquivo(arquivo).raised
    /\ call' = [fn |-> "parse_script_moves", conversor |-> "none",
                has_robot_data |-> FALSE, ioerr |-> "none"]
    /\ result' = [raised |-> FALSE, returned |-> TRUE,
                  value |-> parse_script_moves(ler_arquivo(arquivo).linhas),
                  \* what each pass of "for linha in linhas" appended
                  by_line |-> [i \in 1..Len(ler_arquivo(arquivo).linhas) |->
                                  ParseLine(ler_arquivo(arquivo).linhas[i])]]
    /\ UNCHANGED <<builderVars, arquivo, DADOS_ROBOS, elems, linhas_out, files, dirs,
                   earlier, scriptPostVars>>

InitParse ==
    /\ BuilderInit
    /\ arquivo \in ParseFiles
    /\ DADOS_ROBOS = <<>>
    /\ call = NoCall
    /\ result = NoResult
    /\ elems = <<>>
    /\ linhas_out = <<>>
    /\ files = {}
    /\ dirs = {}
    /\ PostIdle

SpecParse == InitParse /\ [][ParseScriptMoves]_vars

(***************************************************************************)
(* The modified controller-script post processor (Universal_Robots_AJT2).  *)
(* A line of PROG is its code and the #JOINTS comments appended to it; a   *)
(* comment is its six values, in micro-radians ("%.6f").  The methods of   *)
(* the base class (MoveJ, MoveL, MoveC, addline) belong to RoboDK's libspp: *)
(* a base move appends some lines to PROG or none, and returns or raises;  *)
(* an exception ends the host's run.                                       *)
(***************************************************************************)
MaxPostCalls == 3   \* calls the host makes in one run

\* deg * math.pi / 180.0, whole degrees to micro-radians
_deg2rad(deg) == deg * 17453

Line(code) == [code |-> code, comments |-> <<>>]

\* if joints is not None and len(joints) >= 6: self._last_joints_rad = [...]
StoreJoints(joints, last) ==
    IF joints # None /\ Len(joints) >= 6
    THEN [i \in 1..6 |-> _deg2rad(joints[i])]
    ELSE last

\* the comment is appended and the stored joints are left for the next move
_append_joints_comment_kept(prog, last) ==
    IF last = None THEN [PROG |-> prog, last |-> None]
    ELSE [PROG |-> IF prog # <<>>
                   THEN [prog EXCEPT ![Len(prog)].comments = Append(@, last)]
                   ELSE prog,
          last |-> last]

\* self.PROG[-1] = self.PROG[-1].rstrip() + comment; self._last_joints_rad = None
_append_joints_comment(prog, last) ==
    IF last = None THEN [PROG |-> prog, last |-> None]
    ELSE [PROG |-> IF prog # <<>>
                   THEN [prog EXCEPT ![Len(prog)].comments = Append(@, last)]
                   ELSE prog,
          last |-> None]

\* what super().MoveJ/MoveL/MoveC does: the lines it appends, and whether it raises
BaseMoves(code) ==
    {[lines |-> ls, raised |-> r] : ls \in {<<>>, <<Line(code)>>}, r \in BOOLEAN}

PostRunning ==
    /\ Len(post_calls) < MaxPostCalls
    /\ post_calls # <<>> => post_calls[Len(post_calls)].returned

\* the body shared by MoveJ, MoveL and MoveC: joints are the joints of the
\* move (joints2 for MoveC), made is the call as the host made it
PostMove(made, joints, base) ==
    LET stored == StoreJoints(joints, _last_joints_rad)
        prog == PROG \o base.lines
        done == IF stored # None THEN _append_joints_comment(prog, stored)
                ELSE [PROG |-> prog, last |-> stored]
    IN /\ PROG' = IF base.raised THEN prog ELSE done.PROG
       /\ _last_joints_rad' = IF base.raised THEN stored ELSE done.last
       /\ post_calls' = Append(post_calls, made @@ [returned |-> ~base.raised])
       /\ UNCHANGED <<builderVars, arquivo, DADOS_ROBOS, call, result, elems,
                      linhas_out, files, dirs, earlier>>

SixJoints == <<0, -90, 0, -90, 0, 0>>
SevenJoints == <<10, 20, 30, 40, 50, 60, 70>>
FiveJoints == <<1, 2, 3, 4, 5>>
PostJoints == {None, SixJoints, SevenJoints, FiveJoints}

AJT2_MoveJ ==
    /\ PostRunning
    /\ \E joints \in PostJoints, base \in BaseMoves("movej") :
          PostMove([fn |-> "MoveJ", joints |-> joints], joints, base)

AJT2_MoveL ==
    /\ PostRunning
    /\ \E joints \in PostJoints, base \in BaseMoves("movel") :
          PostMove([fn |-> "MoveL", joints |-> joints], joints, base)

AJT2_MoveC ==
    /\ PostRunning
    /\ \E joints1 \in {SixJoints}, joints2 \in PostJoints \ {SixJoints},
          base \in BaseMoves("movec") :
          PostMove([fn |-> "MoveC", joints1 |-> joints1, joints2 |-> joints2],
                   joints2, base)

\* self.addline(...) of the base class: one more line
AJT2_setDigital ==
    /\ PostRunning
    /\ \E code \in {"assignment", "set_standard_digital_out"} :
          PROG' = Append(PROG, Line(code))
    /\ post_calls' = Append(post_calls, [fn |-> "setDigital", returned |-> TRUE])
    /\ UNCHANGED <<_last_joints_rad, builderVars, arquivo, DADOS_ROBOS, call, result,
                   elems, linhas_out, files, dirs, earlier>>

\* the while loop on the input, its sync() and its end, on either branch
AJT2_setWaitDI ==
    /\ PostRunning
    /\ PROG' = PROG \o <<Line("while"), Line("sync"), Line("end")>>
    /\ post_calls' = Append(post_calls, [fn |-> "setWaitDI", returned |-> TRUE])
    /\ UNCHANGED <<_last_joints_rad, builderVars, arquivo, DADOS_ROBOS, call, result,
                   elems, linhas_out, files, dirs, earlier>>

InitPost ==
    /\ BuilderInit
    /\ arquivo = MissingFile
    /\ DADOS_ROBOS = <<>>
    /\ call = NoCall
    /\ result = NoResult
    /\ elems = <<>>
    /\ linhas_out = <<>>
    /\ files = {}
    /\ dirs = {}
    /\ PostIdle

NextPost ==
    \/ AJT2_MoveJ
    \/ AJT2_MoveL
    \/ AJT2_MoveC
    \/ AJT2_setDigital
    \/ AJT2_setWaitDI

SpecPost == InitPost /\ [][NextPost]_vars

(***************************************************************************)
(* Properties of the Builder, checked under Spec.                          *)
(***************************************************************************)

\* C1: every target in the target list has at least one of {joints, pose}
\* non-null, whatever MoveJ/MoveL/MoveC callbacks were made.
C1_TargetHasJointsOrPose ==
    \A i \in 1..Len(targets) : targets[i].joints # None \/ targets[i].pose # None

\* C2: the k-th step appended carries index k, for every mix of step types:
\* indices start at 1, increase by 1, and none is skipped or reused.
C2_StepIndexIsPosition ==
    /\ \A k \in 1..Len(steps) : steps[k].index = k
    /\ instruction_index = Len(steps)

C2_Witness ==
    /\ Len(steps) = 3
    /\ steps[1].type = "SET_IO"
    /\ steps[2].type = "MOVE_C"
    /\ steps[3].type = "SET_FRAME"

\* the number a string of decimal digits denotes, -1 if a character is no digit
RECURSIVE DigitsValue(_)
DigitsValue(s) ==
    IF s = <<>> THEN 0
    ELSE LET d == {n \in 0..9 : DigitChar(n) = s[Len(s)]}
             rest == DigitsValue(SubSeq(s, 1, Len(s) - 1))
         IN IF d = {} \/ rest < 0 THEN -1 ELSE 10 * rest + CHOOSE n \in d : TRUE

\* C3: the n-th target added gets the id "T" followed by n zero-padded to
\* three digits, and no two targets share an id.
C3_TargetIdsSequentialUnique ==
    /\ \A n \in 1..Len(targets) :
         /\ Len(targets[n].id) >= 4
         /\ targets[n].id[1] = "T"
         /\ DigitsValue(Tail(targets[n].id)) = n
    /\ \A i, j \in 1..Len(targets) : targets[i].id = targets[j].id => i = j
    /\ target_counter = Len(targets)

C3_Witness ==
    /\ Len(targets) = 4
    /\ Len(steps) = 3
    /\ steps[1].type = "MOVE_J"
    /\ steps[2].type = "MOVE_C"
    /\ steps[3].type = "MOVE_L"
    /\ targets[3].id = <<"T", "0", "0", "3">>

\* C8: the initial-state snapshot is taken by the first ProgStart, as a copy
\* of the running state at that moment; no later callback changes it, and
\* ProgSave writes that snapshot as initial_state.
C8_InitialStateCapturedOnce ==
    [][ /\ (initial_state = NoRef /\ initial_state' # NoRef) =>
              /\ PROG_NAMES = <<>> /\ Len(PROG_NAMES') = 1
              /\ heap'[initial_state'] = heap[CUR]
        /\ PROG_NAMES' # <<>> => initial_state' # NoRef
        /\ initial_state # NoRef =>
              /\ initial_state' # NoRef
              /\ heap'[initial_state'] = heap[initial_state]
        /\ (initial_state # NoRef /\ Len(PROG_FILES') > Len(PROG_FILES)) =>
              ruki_data'.program.initial_state = heap[initial_state]
      ]_vars

C8_Witness ==
    /\ initial_state # NoRef
    /\ heap[initial_state] = DefaultState
    /\ heap[CUR] # DefaultState
    /\ Len(PROG_FILES) = 1
    /\ ruki_data.program.initial_state = DefaultState

\* C9: steps are append-only: a step, once appended, keeps its position and
\* every field, its state_before and state_after snapshots included, and
\* the list only grows at its end.
C9_StepsAppendOnly ==
    [][ /\ Len(steps') >= Len(steps)
        /\ \A i \in 1..Len(steps) :
              StepValue(steps'[i], heap') = StepValue(steps[i], heap)
      ]_vars

C9_Witness ==
    /\ Len(steps) = 3
    /\ steps[1].type = "MOVE_J"
    /\ steps[2].type = "SET_SPEED"
    /\ steps[3].type = "SET_FRAME"
    /\ heap[steps[1].state_after] = DefaultState
    /\ heap[steps[2].state_after] # DefaultState
    /\ heap[steps[3].state_after] # heap[steps[2].state_after]

\* C10: the frames map always holds "world" with identity pose and the tools
\* map always holds "tool0" with identity pose, whatever setFrame/setTool
\* calls were made.
C10_ImplicitWorldAndTool0 ==
    /\ world \in DOMAIN frames
    /\ frames[world].pose = IdentityPose
    /\ tool0 \in DOMAIN tools
    /\ tools[tool0].tcp_pose = IdentityPose

(***************************************************************************)
(* Properties of the conversions, checked under SpecConv.                  *)
(***************************************************************************)
UrpEmitters == {"ruki_para_urp", "script_para_urp"}

\* the converter that ran could read its input file
InputRead ==
    \/ call.conversor \in {"ruki_para_script", "ruki_para_urp"} /\ arquivo.kind = "ir"
    \/ call.conversor \in {"script_para_urp", "script_para_robodk"}
          /\ arquivo.kind \in {"script", "ir"}

\* an archive emitter walked its whole input and left the tree without children
EmittedNothing ==
    /\ call.conversor \in UrpEmitters
    /\ InputRead
    /\ call.has_robot_data
    /\ elems = <<>>
    /\ ~(result.raised /\ result.exc = "TypeError")
    /\ ~(result.returned /\ result.msg.kind = "erro" /\ result.msg.exc = "TypeError")

\* C4: an archive emission, from an IR or from a parsed script, that emits no
\* Move and no Set element returns a failure result whose message is "no
\* commands found", and writes no output file.
C4_NoCommandsFails ==
    EmittedNothing =>
        /\ result.returned
        /\ ~result.ok
        /\ result.msg.kind = "no_commands"
        /\ result.path = NoPath
        /\ files = {}

DirectFeature == [attr |-> "referencedName", value |-> "Joint_0_name"]
BackFeature == [attr |-> "reference", value |-> "../../Move/feature"]
BackPin == [attr |-> "reference", value |-> "../../Set/pin"]

\* the elements of this tag before position k
Earlier(tag, k) == {i \in 1..(k - 1) : elems[i].tag = tag}

\* C5: in the tree either archive emitter builds, the first Move carries
\* feature referencedName = "Joint_0_name" and every later Move the reference
\* "../../Move/feature"; the first Set carries pin referencedName and every
\* later Set the reference "../../Set/pin"; a Set never counts as a Move nor a
\* Move as a Set, and a move skipped for lack of joints counts as neither.
C5_FirstOfKindAttribute ==
    \A k \in 1..Len(elems) :
        /\ elems[k].tag = "Move" =>
              elems[k].feature = IF Earlier("Move", k) = {} THEN DirectFeature
                                 ELSE BackFeature
        /\ elems[k].tag = "Set" =>
              /\ (Earlier("Set", k) = {}) <=> (elems[k].pin.attr = "referencedName")
              /\ (Earlier("Set", k) # {}) <=> (elems[k].pin = BackPin)

\* a script whose first linear move is skipped, then a Set, then the first
\* Move, which still carries the direct attribute
C5_Witness ==
    /\ call.conversor = "script_para_urp"
    /\ result.returned /\ result.ok
    /\ result.msg.warning = <<1>>
    /\ Len(elems) = 2
    /\ elems[1].tag = "Set" /\ elems[1].pin.attr = "referencedName"
    /\ elems[2].tag = "Move" /\ elems[2].feature = DirectFeature

\* C6: executar_conversao returns a (success, message, path) triple and never
\* raises; a brand without emitter, a conversion outside the table and an
\* exception inside the converter (unreadable input, missing target data, an
\* I/O error while writing) give success = False and no path; a converter
\* runs only for a (brand, conversion) pair of the table, and it is the one
\* the table names.
C6_EntryPointNeverRaises ==
    call.fn = "executar_conversao" =>
        /\ result.returned /\ ~result.raised
        /\ (call.marca \notin EMITTERS) =>
              /\ ~result.ok /\ result.msg.kind = "no_emitter"
              /\ call.conversor = "none" /\ files = {} /\ dirs = {}
        /\ (call.marca \in EMITTERS /\ call.conv \notin DOMAIN CONVERSOES) =>
              /\ ~result.ok /\ result.msg.kind = "no_conversion"
              /\ call.conversor = "none" /\ files = {} /\ dirs = {}
        /\ (call.conversor # "none") =>
              /\ call.marca \in EMITTERS
              /\ call.conv \in DOMAIN CONVERSOES
              /\ call.conversor = CONVERSOES[call.conv]
        /\ (call.conversor # "none" /\ ~InputRead) =>
              ~result.ok /\ result.msg.kind = "erro"
        /\ (\E f \in files : ~f.complete) => ~result.ok /\ result.msg.kind = "erro"
        /\ ~result.ok => result.path = NoPath
        /\ result.ok =>
              /\ call.ioerr = "none"
              /\ [path |-> result.path, complete |-> TRUE] \in files

\* the selected converter raised on a target without joints, and the caller
\* got a failure triple
C6_Witness ==
    /\ call.fn = "executar_conversao"
    /\ call.conversor = "ruki_para_urp"
    /\ result.returned /\ ~result.ok
    /\ result.msg.kind = "erro" /\ result.msg.exc = "TypeError"
    /\ result.path = NoPath

DirectEmitters ==
    {"ruki_para_script", "ruki_para_urp", "script_para_urp", "script_para_robodk"}

\* C7: each emitter entry point, called directly on a readable input and with
\* a file system that accepts the output, returns its (success, message, path)
\* result rather than raising, whatever the targets and parsed moves hold.
C7_EmittersNeverRaise ==
    (call.fn \in DirectEmitters /\ InputRead /\ call.ioerr = "none") =>
        result.returned /\ ~result.raised

(***************************************************************************)
(* Properties of the Builder's subprogram and IO bookkeeping, under Spec.  *)
(***************************************************************************)
\* C11: the first ProgStart creates no subprogram entry; a later ProgStart
\* opens a subprogram whose start_step is the index of the next step to be
\* added; the ProgFinish that follows sets its end_step to the index of the
\* last step added, so that a subprogram the host has closed has both bounds
\* and the steps made between its ProgStart and its ProgFinish are exactly
\* the steps whose index is in [start_step, end_step].
C11_SubprogramBounds ==
    /\ Len(PROG_NAMES) <= 1 => DOMAIN subprograms = {}
    /\ prog_history.open # <<>> =>
          LET o == prog_history.open[1]
          IN /\ o.name \in DOMAIN subprograms
             /\ subprograms[o.name].start_step = o.from
    /\ \A n \in DOMAIN prog_history.closed :
          LET c == prog_history.closed[n]
          IN /\ n \in DOMAIN subprograms
             /\ "end_step" \in DOMAIN subprograms[n]
             /\ subprograms[n].start_step = c.from
             /\ subprograms[n].end_step = c.to
             /\ \A k \in 1..Len(steps) :
                   (k \in c.from..c.to) <=>
                      (steps[k].index \in
                          subprograms[n].start_step..subprograms[n].end_step)

\* the steps that use an IO
IoSteps == {k \in 1..Len(steps) : "io_ref" \in DOMAIN steps[k]}

\* the first step that uses this reference
FirstUse(ref) ==
    CHOOSE k \in IoSteps :
        /\ steps[k].io_ref = ref
        /\ \A j \in IoSteps : steps[j].io_ref = ref => k <= j

\* C12: io_map holds an entry for exactly the (io_type, index) pairs that
\* setDO, setAO and waitDI have used, an index counting by its text (1 and
\* "1" name the same IO); two uses get the same reference name exactly when
\* they use the same pair; and each entry is still the one its first use
\* created, whatever was used afterwards.
C12_IoMapLazyAndStable ==
    /\ DOMAIN io_map = {steps[k].io_ref : k \in IoSteps}
    /\ \A j, k \in IoSteps :
          (steps[j].io_ref = steps[k].io_ref) <=>
             /\ steps[j].io_type = steps[k].io_type
             /\ Str(steps[j].io_index) = Str(steps[k].io_index)
    /\ \A ref \in DOMAIN io_map :
          io_map[ref] = [type |-> steps[FirstUse(ref)].io_type,
                         index |-> steps[FirstUse(ref)].io_index]

\* output 1 set by number, then by name, then analog output 1: two entries,
\* and the digital one still holds the number
C12_Witness ==
    /\ Len(steps) = 3
    /\ IoSteps = {1, 2, 3}
    /\ steps[1].io_type = DO /\ steps[1].io_index = IntVar(1)
    /\ steps[2].io_type = DO /\ steps[2].io_index = StrVar(<<"1">>)
    /\ steps[3].io_type = AO
    /\ Cardinality(DOMAIN io_map) = 2
    /\ io_map[steps[2].io_ref].index = IntVar(1)

(***************************************************************************)
(* Further properties of the conversions, checked under SpecConv.          *)
(***************************************************************************)
\* C13: when an archive emitter is given no robot data it builds no element
\* of the tree and creates neither the output directory nor a file, whatever
\* the input holds; once it has read its input it returns (False, "robot
\* data not found", None), and nothing it returns is a success or has a path.
C13_NoRobotDataFailsEarly ==
    (call.conversor \in UrpEmitters /\ ~call.has_robot_data) =>
        /\ elems = <<>>
        /\ files = {}
        /\ dirs = {}
        /\ InputRead =>
              /\ result.returned
              /\ ~result.ok
              /\ result.msg.kind = "no_robot_data"
              /\ result.path = NoPath
        /\ result.returned => ~result.ok /\ result.path = NoPath

\* an IR that starts with a joint move to a target with joints, handed to
\* ruki_para_urp without robot data
C13_Witness ==
    /\ call.fn = "ruki_para_urp"
    /\ ~call.has_robot_data
    /\ arquivo.kind = "ir"
    /\ Len(arquivo.data.steps) >= 2
    /\ arquivo.data.steps[1] = [type |-> "MOVE_J", target |-> TargetId(1)]
    /\ result.returned /\ ~result.ok
    /\ result.msg.kind = "no_robot_data"
    /\ elems = <<>> /\ files = {} /\ dirs = {}

ScriptEmitters == {"ruki_para_script", "script_para_robodk"}

\* the lines of the output that are a move or an IO instruction
InstructionLines ==
    {k \in 1..Len(linhas_out) :
        linhas_out[k].kind \in {"movej", "movel", "set_standard_digital_out",
                                "robot.MoveJ", "robot.MoveL", "robot.setDO"}}

\* a script emitter walked its whole input and wrote no instruction
EmittedNoInstruction ==
    /\ call.conversor \in ScriptEmitters
    /\ InputRead
    /\ InstructionLines = {}
    /\ ~(result.raised /\ result.exc = "TypeError")
    /\ ~(result.returned /\ result.msg.kind = "erro" /\ result.msg.exc = "TypeError")

\* C14: when ruki_para_script or script_para_robodk emits no move and no IO
\* instruction it returns success = False and writes no output file.
C14_EmptyScriptFails ==
    EmittedNoInstruction =>
        /\ result.returned
        /\ ~result.ok
        /\ result.path = NoPath
        /\ files = {}

\* the steps of the input IR, and the target each one names
InSteps == arquivo.data.steps
InTarget(k) == TargetOf(InSteps[k], TargetsById(arquivo.data.targets))

\* a target with a 4-row pose_matrix, otherwise with a pose of at least 6 values
Resolvable(t) ==
    \/ "pose_matrix" \in DOMAIN t /\ t.pose_matrix # None /\ Len(t.pose_matrix) = 4
    \/ "pose" \in DOMAIN t /\ t.pose # None /\ Len(t.pose) >= 6

StepsOfType(type) == {k \in 1..Len(InSteps) : InSteps[k].type = type}
LinesOfKind(kind) == {k \in 1..Len(linhas_out) : linhas_out[k].kind = kind}

\* no MOVE_J names a target whose joints are null
JointsPresent == \A k \in StepsOfType("MOVE_J") : JointsOf(InTarget(k)) # None

ParsedCmds == parse_script_moves(ler_arquivo(arquivo).linhas)
ParsedMoves == {k \in 1..Len(ParsedCmds) : ParsedCmds[k].cmd = "move"}
MovesWithoutJoints == {k \in ParsedMoves : "joints" \notin DOMAIN ParsedCmds[k]}
MoveElems == {k \in 1..Len(elems) : elems[k].tag = "Move"}

\* C16: script_para_urp emits no Move for a parsed move without joints and
\* counts it: the Moves emitted plus the moves skipped are the parsed moves;
\* a conversion that succeeds reports the Moves emitted and, whenever it
\* skipped any, their number in its message; skipping is no error.
C16_SkippedMovesReported ==
    (call.conversor = "script_para_urp" /\ InputRead /\ call.has_robot_data) =>
        /\ Cardinality(MoveElems) + Cardinality(MovesWithoutJoints)
              = Cardinality(ParsedMoves)
        /\ (result.returned /\ result.ok) =>
              /\ result.msg.mc = Cardinality(MoveElems)
              /\ result.msg.warning = IF MovesWithoutJoints # {}
                                      THEN <<Cardinality(MovesWithoutJoints)>>
                                      ELSE <<>>
        /\ (elems # <<>> /\ call.ioerr = "none") => result.returned /\ result.ok

\* two linear moves without joints and one joint move: one Move, two reported
C16_Witness ==
    /\ call.conversor = "script_para_urp"
    /\ result.returned /\ result.ok
    /\ Cardinality(MovesWithoutJoints) = 2
    /\ Cardinality(MoveElems) = 1
    /\ result.msg.mc = 1
    /\ result.msg.warning = <<2>>

(***************************************************************************)
(* Properties of catalog lookup and model detection, checked under SpecCat.*)
(***************************************************************************)

\* C17: get_robot_data(brand, model) returns the requested model's record when
\* that key exists for the brand, otherwise the record of the brand's declared
\* default model, and None when the brand is unknown or when neither the
\* requested nor the default key exists
C17_CatalogLookup ==
    call.fn = "get_robot_data" =>
        LET known == call.marca \in DOMAIN DADOS_ROBOS
            d == DADOS_ROBOS[call.marca]
            requested == call.modelo \in DOMAIN d.robos
            default == d.modelo_padrao \in DOMAIN d.robos
        IN /\ ~known => result.value = None
           /\ known /\ requested => result.value = d.robos[call.modelo]
           /\ known /\ ~requested /\ default => result.value = d.robos[d.modelo_padrao]
           /\ known /\ ~requested /\ ~default => result.value = None

\* an absent model was requested of a brand whose default exists, and the
\* default's record came back
C17_Witness ==
    /\ call.fn = "get_robot_data"
    /\ call.marca \in DOMAIN DADOS_ROBOS
    /\ call.modelo = UR5k
    /\ DADOS_ROBOS[call.marca].modelo_padrao = UR20k
    /\ UR10k \in DOMAIN DADOS_ROBOS[call.marca].robos
    /\ result.value = ModelRecord(UR20k)

\* IR detection ran on a readable IR document for a brand of the catalog
IRDetection ==
    /\ call.fn \in {"detectar_modelo", "detectar_modelo_ruki"}
    /\ arquivo.kind = "ir"
    /\ call.marca \in DOMAIN DADOS_ROBOS

\* C18: for IR input, detection returns the catalog key equal to the embedded
\* robot name when there is one, and only otherwise the first key, in
\* declaration order, that is a case-insensitive substring of the name; None
\* when no key matches (keys UR10, UR10e and robot 'UR10e' give UR10e)
C18_ExactMatchFirst ==
    IRDetection =>
        LET name == arquivo.data.robot.name
            ks == DADOS_ROBOS[call.marca].keys
            Sub(i) == In(upper(ks[i]), upper(name))
        IN IF \E i \in 1..Len(ks) : ks[i] = name
           THEN result.value = name
           ELSE IF \E i \in 1..Len(ks) : Sub(i)
           THEN \E i \in 1..Len(ks) :
                   /\ Sub(i)
                   /\ \A j \in 1..(i - 1) : ~Sub(j)
                   /\ result.value = ks[i]
           ELSE result.value = None

\* script detection ran on script text for a brand of the catalog
ScriptDetection ==
    /\ call.fn \in {"detectar_modelo", "detectar_modelo_script"}
    /\ arquivo.kind = "script"
    /\ ~arquivo.ruki
    /\ call.marca \in DOMAIN DADOS_ROBOS

\* the key occurs in the text as a word of its own, whatever the case
WholeWord(k, texto) ==
    \E i \in 1..(Len(texto) - Len(k) + 1) :
        /\ upper(SubSeq(texto, i, i + Len(k) - 1)) = upper(k)
        /\ (i = 1 \/ texto[i - 1] \notin AlnumChars \cup {"_"})
        /\ (i + Len(k) > Len(texto) \/ texto[i + Len(k)] \notin AlnumChars \cup {"_"})

\* C19: for script text, detection returns the first catalog key, in
\* declaration order, that occurs as a case-insensitive whole word within the
\* first 100 lines, and None when no key does; a key inside a longer word
\* does not match, and a read or parse error yields None, not an exception
C19_WholeWordInFirstLines ==
    /\ ScriptDetection =>
        LET ks == DADOS_ROBOS[call.marca].keys
            texto == Join(First100(arquivo.linhas))
            Hit(i) == WholeWord(ks[i], texto)
        IN IF \E i \in 1..Len(ks) : Hit(i)
           THEN \E i \in 1..Len(ks) :
                   /\ Hit(i)
                   /\ \A j \in 1..(i - 1) : ~Hit(j)
                   /\ result.value = ks[i]
           ELSE result.value = None
    /\ (/\ call.fn = "detectar_modelo"
        /\ (arquivo.kind = "missing" \/ (arquivo.kind = "script" /\ arquivo.ruki)))
          => ~result.raised /\ result.value = None

(***************************************************************************)
(* Properties of the script parser, checked under SpecParse.               *)
(***************************************************************************)
Parsed6(p) == IF Len(p.vals) > 6 THEN SubSeq(p.vals, 1, 6) ELSE p.vals
LooksLikeRadians(l) == \A i \in 1..Len(l) : -7000 < l[i] /\ l[i] < 7000
InDegrees(l) == [i \in 1..Len(l) |-> rad2deg(l[i])]
Heuristic(l) == IF LooksLikeRadians(l) THEN InDegrees(l) ELSE l
HasComment(line) == "comment" \in DOMAIN line /\ line.comment.ok

\* C20: a parsed joint value list is converted from radians to degrees if and
\* only if every value of it has absolute magnitude under 7, all of its
\* values or none; this is applied to the array of a joint move and to the
\* #JOINTS comment, and never to the pose array of a linear move
C20_RadiansHeuristic ==
    call.fn = "parse_script_moves" =>
        \A i \in 1..Len(arquivo.linhas) :
            result.by_line[i] # <<>> =>
              LET line == arquivo.linhas[i]
                  cmd == result.by_line[i][1]
              IN /\ HasComment(line) => cmd.joints = Heuristic(Parsed6(line.comment))
                 /\ line.call = "movej" /\ ~HasComment(line)
                       => cmd.joints = Heuristic(Parsed6(line.args))
                 /\ cmd.cmd = "move" /\ line.call # "movej" /\ line.args.ok
                       => /\ cmd.pose = Parsed6(line.args)
                          /\ ~HasComment(line) => "joints" \notin DOMAIN cmd

\* a joint move in radians came out in degrees, and a linear move whose pose
\* values are all under 7 kept its pose while its mixed comment list was kept
C20_Witness ==
    /\ call.fn = "parse_script_moves"
    /\ Len(arquivo.linhas) = 2
    /\ Len(result.value) = 2
    /\ arquivo.linhas[1].call = "movej"
    /\ arquivo.linhas[1].args.vals = <<0, -1571, 0, -1571, 0, 0>>
    /\ result.value[1].joints = <<0, -90013, 0, -90013, 0, 0>>
    /\ arquivo.linhas[2].call = "movel_p"
    /\ HasComment(arquivo.linhas[2])
    /\ arquivo.linhas[2].comment.vals = MixedJ
    /\ result.value[2].joints = MixedJ
    /\ result.value[2].pose = <<600, 300, 400, 0, 3142, 0>>

\* C21: when a move line carries a parseable #JOINTS comment, the joints of
\* the resulting move are the comment's values and not the array's, for
\* joint and linear moves alike; the array is the joint source only when no
\* parseable comment is present
C21_CommentJointsPreferred ==
    call.fn = "parse_script_moves" =>
        \A i \in 1..Len(arquivo.linhas) :
            LET line == arquivo.linhas[i]
                out == result.by_line[i]
            IN out # <<>> /\ out[1].cmd = "move" =>
                 /\ HasComment(line) => out[1].joints = Heuristic(Parsed6(line.comment))
                 /\ ~HasComment(line) /\ "joints" \in DOMAIN out[1]
                       => /\ line.call = "movej"
                          /\ out[1].joints = Heuristic(Parsed6(line.args))

\* a joint move and a linear move, each with an array and a comment that
\* differ, both took the comment's joints
C21_Witness ==
    /\ call.fn = "parse_script_moves"
    /\ Len(arquivo.linhas) = 2
    /\ Len(result.value) = 2
    /\ arquivo.linhas[1].call = "movej"
    /\ arquivo.linhas[2].call = "movel_p"
    /\ \A i \in 1..2 :
          /\ HasComment(arquivo.linhas[i])
          /\ arquivo.linhas[i].args.ok
          /\ Heuristic(Parsed6(arquivo.linhas[i].args)) # Heuristic(Parsed6(arquivo.linhas[i].comment))
          /\ result.value[i].joints = Heuristic(Parsed6(arquivo.linhas[i].comment))

(***************************************************************************)
(* Properties of the emitters, continued; checked under SpecConv.          *)
(***************************************************************************)
IsMoveCmd(c) == c.cmd = "move"
IsMoveCall(l) == l.kind \in {"robot.MoveJ", "robot.MoveL"}
UsablePose(c) == "pose" \in DOMAIN c /\ c.pose # None /\ Len(c.pose) >= 6

\* C22: script_para_robodk emits exactly one call for every parsed move and
\* counts it: a joint move with joints becomes a MoveJ call, a linear move
\* with a pose and joints becomes a MoveL call built from the pose, and a
\* linear move with joints but no usable pose becomes a MoveL call on the
\* joints
C22_OneCallPerMove ==
    (call.conversor = "script_para_robodk" /\ InputRead) =>
        LET moves == SelectSeq(ParsedCmds, IsMoveCmd)
            calls == SelectSeq(linhas_out, IsMoveCall)
        IN /\ Len(calls) = Len(moves)
           /\ \A k \in 1..Len(moves) :
                 IF moves[k].tipo = "MoveJ"
                 THEN calls[k] = [kind |-> "robot.MoveJ", joints |-> moves[k].joints]
                 ELSE IF UsablePose(moves[k])
                 THEN calls[k] = [kind |-> "robot.MoveL", pose |-> moves[k].pose]
                 ELSE calls[k] = [kind |-> "robot.MoveL", joints |-> moves[k].joints]
           /\ (result.returned /\ result.ok) => result.msg.mc = Len(moves)

(***************************************************************************)
(* Conversions repeated, checked under SpecAgain.                          *)
(***************************************************************************)
SameAgain == earlier # <<>> /\ earlier[1].call = call

StateFields == DOMAIN DefaultState

\* the fields of the running state a step of this kind writes, with the
\* keyword of the step each one is written from
OwnFields(s) ==
    CASE s.type = "SET_FRAME" -> {<<"active_frame", "frame">>, <<"active_frame_id", "frame_id">>}
      [] s.type = "SET_TOOL" -> {<<"active_tool", "tool">>, <<"active_tool_id", "tool_id">>}
      [] s.type = "SET_SPEED" ->
            {<<k, k>> : k \in {"speed_linear", "speed_joints"} \cap DOMAIN s}
      [] s.type = "SET_ACCEL" ->
            {<<k, k>> : k \in {"accel_linear", "accel_joints"} \cap DOMAIN s}
      [] s.type = "SET_ROUNDING" -> {<<"rounding", "rounding">>}
      [] OTHER -> {}

\* the step a callback has just appended
StepAdded == Len(steps') = Len(steps) + 1

SnapshotsAroundStep ==
    LET s == steps'[Len(steps')]
        before == heap'[s.state_before]
        after == heap'[s.state_after]
        own == OwnFields(s)
    IN /\ before = heap[CUR]
       /\ after = heap'[CUR]
       /\ \A f \in StateFields \ {o[1] : o \in own} : after[f] = before[f]
       /\ \A o \in own : after[o[1]] = s[o[2]]

\* C24: every step records state_before equal to the running state just
\* before the call and state_after equal to the running state just after
\* it; the two differ only for SET_FRAME, SET_TOOL, SET_SPEED, SET_ACCEL
\* and SET_ROUNDING steps, and each of those writes only its own fields
\* (setSpeed only speed_linear, setSpeedJoints only speed_joints,
\* setAcceleration only accel_linear, setAccelerationJoints only
\* accel_joints, setZoneData only rounding, setFrame only the active frame
\* name and id, setTool only the active tool name and id).
C24_SnapshotsAroundStep == [][StepAdded => SnapshotsAroundStep]_vars

\* setSpeed after setSpeedJoints: the second step changes speed_linear and
\* leaves the joint speed the first one set.
C24_Witness ==
    /\ Len(steps) >= 2
    /\ LET s == steps[Len(steps)]
           p == steps[Len(steps) - 1]
       IN /\ s.type = "SET_SPEED" /\ "speed_linear" \in DOMAIN s
          /\ p.type = "SET_SPEED" /\ "speed_joints" \in DOMAIN p
          /\ heap[s.state_before].speed_linear = 500
          /\ heap[s.state_after].speed_linear = 100
          /\ heap[s.state_before].speed_joints = 30
          /\ heap[s.state_after].speed_joints = 30

\* state_after of each step is state_before of the next one
Continuity ==
    \A k \in 1..(Len(steps) - 1) :
        heap[steps[k].state_after] = heap[steps[k + 1].state_before]

\* the first step of a Builder whose ProgStart has already been called
FirstStepAfterStart ==
    (steps = <<>> /\ initial_state # NoRef /\ Len(steps') = 1)
        => heap'[steps'[1].state_before] = heap'[initial_state']

\* C27: for consecutive steps k and k+1 of the step list, state_after of
\* step k equals state_before of step k+1; and when the first ProgStart
\* precedes every step, state_before of step 1 equals the initial-state
\* snapshot.
C27_SnapshotContinuity == [](Continuity) /\ [][FirstStepAfterStart]_vars

\* ProgStart, then a step that changes the running state, then another step
C27_Witness ==
    /\ initial_state # NoRef
    /\ Len(steps) >= 2
    /\ heap[steps[1].state_before] = heap[initial_state]
    /\ heap[steps[1].state_after] # heap[steps[1].state_before]
    /\ heap[steps[2].state_before] = heap[steps[1].state_after]
    /\ heap[steps[2].state_before] # heap[initial_state]

(***************************************************************************)
(* Claims about the references between steps, targets, frames and tools.   *)
(***************************************************************************)
\* the target ids a step refers to
TargetRefs(s) ==
    CASE s.type \in {"MOVE_J", "MOVE_L"} -> {s.target}
      [] s.type = "MOVE_C" -> {s.target_via, s.target_end}
      [] OTHER -> {}

TargetIds == {targets[i].id : i \in 1..Len(targets)}

\* C28: after any sequence of Builder callbacks, every target id a MOVE_J,
\* MOVE_L or MOVE_C step refers to exists in the target list, every target
\* is referred to by exactly one step, the number of targets equals the
\* target counter and the number of steps equals the last step index.
C28_ReferentialIntegrity ==
    /\ \A k \in 1..Len(steps) : TargetRefs(steps[k]) \subseteq TargetIds
    /\ \A i \in 1..Len(targets) :
         Cardinality({k \in 1..Len(steps) : targets[i].id \in TargetRefs(steps[k])}) = 1
    /\ Len(targets) = target_counter
    /\ Len(steps) = instruction_index
    /\ steps # <<>> => steps[Len(steps)].index = Len(steps)

\* a circular move between two other steps: its two targets belong to it
C28_Witness ==
    /\ Len(steps) = 3
    /\ steps[1].type = "MOVE_L"
    /\ steps[2].type = "MOVE_C"
    /\ steps[3].type = "SET_SPEED"
    /\ Len(targets) = 3
    /\ steps[1].target = targets[1].id
    /\ steps[2].target_via = targets[2].id
    /\ steps[2].target_end = targets[3].id

\* the frame and the tool a state or a target context names are defined
Defined(frame, tool) == frame \in DOMAIN frames /\ tool \in DOMAIN tools

\* C29: in every reachable Builder state the running state's active_frame
\* is a key of the frames map and its active_tool is a key of the tools
\* map; so the creation context of every target and the active frame and
\* tool of every step snapshot (and of the initial-state snapshot) name a
\* frame and a tool that are defined, in the Builder and in the IR that
\* ProgSave serializes.
C29_ActiveFrameToolDefined ==
    /\ Defined(heap[CUR].active_frame, heap[CUR].active_tool)
    /\ \A i \in 1..Len(targets) :
         Defined(targets[i].context.frame, targets[i].context.tool)
    /\ \A k \in 1..Len(steps) :
         /\ Defined(heap[steps[k].state_before].active_frame,
                    heap[steps[k].state_before].active_tool)
         /\ Defined(heap[steps[k].state_after].active_frame,
                    heap[steps[k].state_after].active_tool)
    /\ initial_state # NoRef =>
         Defined(heap[initial_state].active_frame, heap[initial_state].active_tool)
    /\ ruki_data # <<>> =>
         /\ \A i \in 1..Len(ruki_data.targets) :
              /\ ruki_data.targets[i].context.frame \in DOMAIN ruki_data.frames
              /\ ruki_data.targets[i].context.tool \in DOMAIN ruki_data.tools
         /\ \A k \in 1..Len(ruki_data.program.steps) :
              LET s == ruki_data.program.steps[k]
              IN /\ s.state_before.active_frame \in DOMAIN ruki_data.frames
                 /\ s.state_after.active_frame \in DOMAIN ruki_data.frames
                 /\ s.state_before.active_tool \in DOMAIN ruki_data.tools
                 /\ s.state_after.active_tool \in DOMAIN ruki_data.tools
         /\ ruki_data.program.initial_state.active_frame \in DOMAIN ruki_data.frames
         /\ ruki_data.program.initial_state.active_tool \in DOMAIN ruki_data.tools

\* a target created under a frame and a tool the host has set
C29_Witness ==
    /\ Len(steps) = 3
    /\ steps[1].type = "SET_FRAME"
    /\ steps[2].type = "SET_TOOL"
    /\ steps[3].type \in {"MOVE_J", "MOVE_L"}
    /\ targets[1].context.frame = steps[1].frame
    /\ targets[1].context.tool = steps[2].tool
    /\ targets[1].context.frame # world
    /\ targets[1].context.tool # tool0
    /\ heap[CUR].active_frame \in DOMAIN frames \ {world}
    /\ heap[CUR].active_tool \in DOMAIN tools \ {tool0}

(***************************************************************************)
(* Claims about the elements of the archive written from an IR.            *)
(***************************************************************************)
IsMoveStep(s) == s.type \in {"MOVE_J", "MOVE_L"}
IsEmittingStep(s) == s.type \in {"MOVE_J", "MOVE_L", "SET_IO"}
EmittingSteps == SelectSeq(InSteps, IsEmittingStep)

\* the targets of the input IR that carry this id
TargetsWithId(id) ==
    {i \in 1..Len(arquivo.data.targets) : arquivo.data.targets[i].id = id}

\* the element is the Move/Waypoint of the step: its joint angles are the
\* target's joints, each converted from degrees to radians (micro-radians
\* here); a step that names no target of the list gets six zeros
IsWaypointOf(e, s) ==
    /\ e.tag = "Move"
    /\ e.motionType = (IF s.type = "MOVE_J" THEN "MoveJ" ELSE "MoveL")
    /\ IF TargetsWithId(s.target) = {}
       THEN e.angles = Zeros6
       ELSE \E i \in TargetsWithId(s.target) :
              LET j == arquivo.data.targets[i].joints
              IN /\ j # None
                 /\ Len(e.angles) = Len(j)
                 /\ \A n \in 1..Len(j) : e.angles[n] = deg2rad(1000 * j[n])

IsOutputOf(e, s) ==
    /\ e.tag = "Set"
    /\ e.digitalValue = (IF s.value THEN "1" ELSE "0")

\* every move of the input names a target whose joints are not null
AllJointsPresent ==
    \A k \in StepsOfType("MOVE_J") \cup StepsOfType("MOVE_L") :
        JointsOf(InTarget(k)) # None

ParsedLines == ler_arquivo(arquivo).linhas

\* the commands of the lines 1..n, line after line
RECURSIVE InLineOrder(_, _)
InLineOrder(by_line, n) ==
    IF n = 0 THEN <<>> ELSE InLineOrder(by_line, n - 1) \o by_line[n]

MoveCalls == {"movej", "movel_p", "movel_pose_trans", "movel_array"}

\* C26: parse_script_moves returns its commands in the order of the input
\* lines and at most one command per line (the first pattern that matches
\* wins: a line matched as a move never also gives an IO command), and
\* gives no command for a blank line nor for a line that starts with
\* 'def ', 'global ' or 'end'.
C26_OneCommandPerLineInOrder ==
    call.fn = "parse_script_moves" =>
        /\ Len(result.by_line) = Len(ParsedLines)
        /\ result.value = InLineOrder(result.by_line, Len(ParsedLines))
        /\ \A i \in 1..Len(ParsedLines) :
              LET line == ParsedLines[i]
                  cmds == result.by_line[i]
              IN /\ Len(cmds) <= 1
                 /\ line.head \in SkippedHeads => cmds = <<>>
                 /\ (line.head = "code" /\ line.call \in MoveCalls) =>
                        \A k \in 1..Len(cmds) : cmds[k].cmd = "move"
                 /\ (line.head = "code" /\ line.call = "io") =>
                        (Len(cmds) = 1 /\ cmds[1].cmd = "io")

\* an output line, then a line that holds a joint move followed by an
\* output: the output of the first line, then the move alone
C26_Witness ==
    /\ call.fn = "parse_script_moves"
    /\ Len(ParsedLines) = 2
    /\ ParsedLines[1].call = "io"
    /\ ParsedLines[2].call = "movej" /\ "io_index" \in DOMAIN ParsedLines[2]
    /\ Len(result.value) = 2
    /\ result.value[1].cmd = "io"
    /\ result.value[2].cmd = "move" /\ result.value[2].tipo = "MoveJ"

(***************************************************************************)
(* Claims about the joints comments of the script post processor.          *)
(***************************************************************************)
\* the #JOINTS comments of a program, in the order of its lines
RECURSIVE CommentsOf(_)
CommentsOf(prog) ==
    IF prog = <<>> THEN <<>>
    ELSE CommentsOf(SubSeq(prog, 1, Len(prog) - 1)) \o prog[Len(prog)].comments

\* the joints of the move a call is about: the end point's for MoveC
PassedJoints(c) == IF c.fn = "MoveC" THEN c.joints2 ELSE c.joints

\* a MoveJ, MoveL or MoveC call has just returned
MoveReturned ==
    /\ Len(post_calls') = Len(post_calls) + 1
    /\ post_calls'[Len(post_calls')].fn \in {"MoveJ", "MoveL", "MoveC"}
    /\ post_calls'[Len(post_calls')].returned

OwnJointsComment ==
    LET j == PassedJoints(post_calls'[Len(post_calls')])
        old == CommentsOf(PROG)
        all == CommentsOf(PROG')
    IN /\ Len(all) >= Len(old)
       /\ SubSeq(all, 1, Len(old)) = old
       /\ IF j # None /\ Len(j) >= 6 /\ PROG' # <<>>
          THEN /\ Len(all) = Len(old) + 1
               /\ PROG'[Len(PROG')].comments # <<>>
               /\ all[Len(all)] = [i \in 1..6 |-> j[i] * 17453]
          ELSE all = old
       /\ _last_joints_rad' = None

\* C30: the joints comment a MoveJ, MoveL or MoveC call appends encodes the
\* joints passed to that same call (the first six values, in radians; the
\* end-point joints for MoveC), and the stored _last_joints_rad is None
\* after every such call, so a move that is given no joints, or fewer than
\* six, appends no comment and never receives the joints of an earlier move.
C30_CommentIsOfItsOwnCall == [][MoveReturned => OwnJointsComment]_vars

\* a joint move with seven joints, then a circular move whose end point has
\* no joints and a linear move with five: one comment, on the first line
C30_Witness ==
    /\ Len(post_calls) = 3
    /\ post_calls[1] = [fn |-> "MoveJ", joints |-> SevenJoints, returned |-> TRUE]
    /\ post_calls[2] = [fn |-> "MoveC", joints1 |-> SixJoints, joints2 |-> None,
                        returned |-> TRUE]
    /\ post_calls[3] = [fn |-> "MoveL", joints |-> FiveJoints, returned |-> TRUE]
    /\ Len(PROG) = 3
    /\ PROG[1].comments = <<<<174530, 349060, 523590, 698120, 872650, 1047180>>>>
    /\ PROG[2].comments = <<>>
    /\ PROG[3].comments = <<>>
    /\ _last_joints_rad = None

====
